---- MODULE Spec2Model ----
(***************************************************************************)
(* A model of the hybrid recommendation engine of Backend/ml:              *)
(*   recommenders/content_based.py        ContentBasedRecommender          *)
(*   recommenders/collaborative_filter.py CollaborativeFilter              *)
(*   recommenders/gnn_recommender.py      GNNRecommender (LightGCN)        *)
(*   recommenders/hybrid_ensemble.py      HybridEnsemble                   *)
(*                                                                         *)
(* Numbers.  Python floats are modelled as exact rationals <<n, d>> with   *)
(* d > 0 in lowest terms, so that equality of two scores is equality of    *)
(* the pairs.  Floating-point rounding is not modelled.                    *)
(*                                                                         *)
(* Identifiers.  User and item ids are strings in the program; the model   *)
(* uses naturals, ordered as Python orders the strings.                    *)
(*                                                                         *)
(* Numerical kernels.  The truncated decomposition (svds), the random      *)
(* initialisations and the gradient steps of the graph model are not       *)
(* computed: their result is one of a small family of integer tables       *)
(* chosen by a seed that the training action draws nondeterministically.   *)
(***************************************************************************)
EXTENDS Integers, Sequences, FiniteSets, TLC

VARIABLES
    ensemble_method,  \* HybridEnsemble.ensemble_method
    weights,          \* HybridEnsemble.weights
    models_ready,     \* HybridEnsemble.models_ready
    cf,               \* HybridEnsemble.collaborative : CollaborativeFilter
    gnn,              \* HybridEnsemble.gnn : GNNRecommender
    builder,          \* the GraphBuilder that build_graph_from_db fills
    last              \* the last call made: its operation, arguments and outcome

vars == <<ensemble_method, weights, models_ready, cf, gnn, builder, last>>

----------------------------------------------------------------------------
(* Bounds of the model *)

\* longest interaction list handed to a training call
MaxInteractions == 2
\* largest top_k asked of a recommend call
MaxTopK == 2
\* largest activity streak of a user profile
MaxStreak == 32
\* most candidates of a recommend call
MaxCandidates == 6
\* longest item list handed to predict
MaxPredict == 2
\* most (id, score) pairs of a score list handed to _normalize_scores
MaxScores == 3

\* the participants of a study session document
MaxParticipants == 2

\* the members of a group document
MaxMembers == 3

\* the nodes and edges a GraphBuilder holds when a call is made on it
MaxGraph == 3

----------------------------------------------------------------------------
(* Exact rational arithmetic *)

Abs(x) == IF x < 0 THEN -x ELSE x

RECURSIVE GCD(_, _)
GCD(a, b) == IF b = 0 THEN a ELSE GCD(b, a % b)

\* the rational n/d in lowest terms with a positive denominator (d # 0)
Rat(n, d) ==
    LET g == GCD(Abs(n), Abs(d))
        s == IF d < 0 THEN -1 ELSE 1
    IN  <<(s * n) \div g, (s * d) \div g>>

RInt(n) == <<n, 1>>
RZero == <<0, 1>>
ROne == <<1, 1>>
RHalf == <<1, 2>>

RAdd(a, b) == Rat(a[1] * b[2] + b[1] * a[2], a[2] * b[2])
RSub(a, b) == Rat(a[1] * b[2] - b[1] * a[2], a[2] * b[2])
RMul(a, b) == Rat(a[1] * b[1], a[2] * b[2])
\* a / b, for b # 0
RDiv(a, b) == Rat(a[1] * b[2], a[2] * b[1])
RLt(a, b) == a[1] * b[2] < b[1] * a[2]
RLe(a, b) == a[1] * b[2] <= b[1] * a[2]
RMin(a, b) == IF RLe(a, b) THEN a ELSE b
RMax(a, b) == IF RLe(a, b) THEN b ELSE a

\* sum of the rationals f[x], x in S
RECURSIVE RSum(_, _)
RSum(f, S) ==
    IF S = {} THEN RZero
    ELSE LET x == CHOOSE y \in S : TRUE IN RAdd(f[x], RSum(f, S \ {x}))

\* min(values) and max(values) of a non-empty sequence of rationals
RECURSIVE RMinSeq(_)
RMinSeq(s) == IF Len(s) = 1 THEN s[1] ELSE RMin(s[1], RMinSeq(Tail(s)))
RECURSIVE RMaxSeq(_)
RMaxSeq(s) == IF Len(s) = 1 THEN s[1] ELSE RMax(s[1], RMaxSeq(Tail(s)))

----------------------------------------------------------------------------
(* Lists *)

Range(s) == {s[i] : i \in 1..Len(s)}
Min2(a, b) == IF a <= b THEN a ELSE b

\* s[:n] of Python, for n >= 0
Prefix(s, n) == SubSeq(s, 1, Min2(n, Len(s)))

\* list.sort(key=lambda x: x[1], reverse=True) on (id, score) pairs: descending
\* by score, and stable (pairs of equal score keep their order).
\* InsertDesc puts p after every pair whose score is >= p's.
RECURSIVE InsertDesc(_, _)
InsertDesc(sorted, p) ==
    IF sorted = <<>> THEN <<p>>
    ELSE IF RLe(p.score, sorted[1].score)
         THEN <<sorted[1]>> \o InsertDesc(Tail(sorted), p)
         ELSE <<p>> \o sorted

RECURSIVE SortDescFrom(_, _)
SortDescFrom(acc, s) ==
    IF s = <<>> THEN acc ELSE SortDescFrom(InsertDesc(acc, s[1]), Tail(s))

SortDesc(s) == SortDescFrom(<<>>, s)

\* [item_id for item_id, _ in recs]
Ids(recs) == [i \in 1..Len(recs) |-> recs[i].id]

\* sequences over S without repetition, of length at most n
RECURSIVE DistinctSeqs(_, _)
DistinctSeqs(S, n) ==
    IF n = 0 THEN {<<>>}
    ELSE LET shorter == DistinctSeqs(S, n - 1)
             longest == {t \in shorter : Len(t) = n - 1}
         IN  shorter \cup UNION {{Append(s, x) : x \in S \ Range(s)} : s \in longest}

\* every order in which a dict, or a sort among equal keys, can hold the keys S
Orders(S) == {q \in DistinctSeqs(S, Cardinality(S)) : Len(q) = Cardinality(S)}

----------------------------------------------------------------------------
(* ContentBasedRecommender (content_based.py)                              *)
(*                                                                         *)
(* A candidate profile is a record                                         *)
(*   [id, sim, success_rate, current, capacity, category_match]            *)
(* id            '_id'                                                     *)
(* sim           the cosine similarity of the user's and the candidate's   *)
(*               feature vectors (mentors, sessions), a rational of [0,1]  *)
(* success_rate  'success_rate' of a mentor                                *)
(* current       'current_participants' of a session, len('members') of a  *)
(*               group                                                     *)
(* capacity      'max_participants' of a session, settings.maxMembers of a *)
(*               group                                                     *)
(* category_match  whether a group's category is one of the user's         *)
(*               interests                                                 *)
(* A user profile is a record [streak], streak = -1 standing for a profile *)
(* without the key.                                                        *)

\* max(0.0, cosine_similarity(profile1, profile2)): the vectors are not
\* modelled, the candidate carries the value
calculate_similarity(user_data, item) == RMax(RZero, item.sim)

\* the (id, total_score) pair of one mentor
MentorScore(user_data, mentor) ==
    LET similarity == calculate_similarity(user_data, mentor)
        success_boost == RMul(mentor.success_rate, Rat(2, 10))
    IN  [id |-> mentor.id, score |-> RAdd(RMul(similarity, Rat(8, 10)), success_boost)]

\* the (id, total_score) pair of one session
SessionScore(user_data, session) ==
    LET similarity == calculate_similarity(user_data, session)
        availability == RSub(ROne, Rat(session.current, session.capacity))
    IN  [id |-> session.id,
         score |-> RAdd(RMul(similarity, Rat(9, 10)), RMul(availability, Rat(1, 10)))]

\* the (id, total_score) pair of one group
GroupScore(user_data, group) ==
    LET category_match == IF group.category_match THEN ROne ELSE RHalf
        activity_score == RMin(Rat(group.current, 30), ROne)
    IN  [id |-> group.id,
         score |-> RAdd(RMul(category_match, Rat(6, 10)), RMul(activity_score, Rat(4, 10)))]

\* is_available = member_count < max_members
GroupAvailable(group) == group.current < group.capacity

ContentRecommendMentors(user_data, mentor_list, top_k) ==
    LET recommendations ==
            [i \in 1..Len(mentor_list) |-> MentorScore(user_data, mentor_list[i])]
    IN  Prefix(SortDesc(recommendations), top_k)

ContentRecommendSessions(user_data, session_list, top_k) ==
    LET recommendations ==
            [i \in 1..Len(session_list) |-> SessionScore(user_data, session_list[i])]
    IN  Prefix(SortDesc(recommendations), top_k)

ContentRecommendGroups(user_data, group_list, top_k) ==
    LET available == SelectSeq(group_list, GroupAvailable)
        recommendations ==
            [i \in 1..Len(available) |-> GroupScore(user_data, available[i])]
    IN  Prefix(SortDesc(recommendations), top_k)

ContentRecommend(kind, user_data, item_list, top_k) ==
    CASE kind = "mentor" -> ContentRecommendMentors(user_data, item_list, top_k)
      [] kind = "session" -> ContentRecommendSessions(user_data, item_list, top_k)
      [] kind = "group" -> ContentRecommendGroups(user_data, item_list, top_k)

----------------------------------------------------------------------------
(* CollaborativeFilter (collaborative_filter.py)                           *)
(*                                                                         *)
(* An interaction is a record [user_id, item_id, interaction_type, weight].*)
(* An attribute that is None in the program is the empty sequence <<>>     *)
(* here, and a value x that is set is <<x>>.  A table (a numpy array) is a *)
(* sequence of rows; the program's index i is position i + 1.              *)

None == <<>>
Some(x) == <<x>>
IsNone(o) == o = <<>>
Val(o) == o[1]

\* CollaborativeFilter(n_factors=20), as HybridEnsemble constructs it
n_factors == 20

\* the empty dict {}
EmptyMap == [x \in {} |-> 0]

\* {id: idx for idx, id in enumerate(sorted(set(ids)))}
IdMap(ids) == [x \in ids |-> Cardinality({y \in ids : y < x})]

\* {idx: id for id, idx in id_map.items()}
ReverseMap(id_map) ==
    [idx \in {id_map[x] : x \in DOMAIN id_map} |->
        CHOOSE x \in DOMAIN id_map : id_map[x] = idx]

\* interaction_weights.get(interaction.get('interaction_type', 'view'), 1.0)
interaction_weights(interaction_type) ==
    CASE interaction_type = "view" -> Rat(1, 1)
      [] interaction_type = "join" -> Rat(2, 1)
      [] interaction_type = "complete" -> Rat(3, 1)
      [] interaction_type = "rate_positive" -> Rat(4, 1)
      [] interaction_type = "bookmark" -> Rat(5, 2)
      [] OTHER -> Rat(1, 1)

\* the weight one record adds to its matrix entry.  A record is a dict: a
\* key it does not have is absent from its domain, and .get supplies
\* 'view' for the type and 1.0 for the weight.
InteractionWeight(interaction) ==
    LET interaction_type ==
            IF "interaction_type" \in DOMAIN interaction
            THEN interaction.interaction_type ELSE "view"
        weight == IF "weight" \in DOMAIN interaction THEN interaction.weight ELSE 1
    IN  RMul(interaction_weights(interaction_type), RInt(weight))

\* a matrix in which a later record of a (user, item) pair replaces the
\* earlier ones instead of being added to them
CreateInteractionMatrixKeepsLast(interactions) ==
    LET unique_users == {interactions[k].user_id : k \in 1..Len(interactions)}
        unique_items == {interactions[k].item_id : k \in 1..Len(interactions)}
        user_id_map == IdMap(unique_users)
        item_id_map == IdMap(unique_items)
        coords == {<<user_id_map[interactions[k].user_id],
                     item_id_map[interactions[k].item_id]>> : k \in 1..Len(interactions)}
        lastrecord(c) == CHOOSE k \in 1..Len(interactions) :
                            /\ user_id_map[interactions[k].user_id] = c[1]
                            /\ item_id_map[interactions[k].item_id] = c[2]
                            /\ \A j \in (k + 1)..Len(interactions) :
                                   \/ user_id_map[interactions[j].user_id] # c[1]
                                   \/ item_id_map[interactions[j].item_id] # c[2]
    IN  [user_id_map |-> user_id_map,
         item_id_map |-> item_id_map,
         n_users |-> Cardinality(unique_users),
         n_items |-> Cardinality(unique_items),
         data |-> [c \in coords |-> InteractionWeight(interactions[lastrecord(c)])]]

\* _create_interaction_matrix: the id maps it installs and the matrix it returns.
\* data holds one stored entry per (row, column) that has a record, the sum of
\* the records' weights (csr_matrix sums duplicate coordinates).
CreateInteractionMatrix(interactions) ==
    LET unique_users == {interactions[k].user_id : k \in 1..Len(interactions)}
        unique_items == {interactions[k].item_id : k \in 1..Len(interactions)}
        user_id_map == IdMap(unique_users)
        item_id_map == IdMap(unique_items)
        coords == {<<user_id_map[interactions[k].user_id],
                     item_id_map[interactions[k].item_id]>> : k \in 1..Len(interactions)}
        records(c) == {k \in 1..Len(interactions) :
                          /\ user_id_map[interactions[k].user_id] = c[1]
                          /\ item_id_map[interactions[k].item_id] = c[2]}
        w == [k \in 1..Len(interactions) |-> InteractionWeight(interactions[k])]
    IN  [user_id_map |-> user_id_map,
         item_id_map |-> item_id_map,
         n_users |-> Cardinality(unique_users),
         n_items |-> Cardinality(unique_items),
         data |-> [c \in coords |-> RSum(w, records(c))]]

\* interaction_matrix.nnz
Nnz(matrix) == Cardinality(DOMAIN matrix.data)

\* interaction_matrix.data.mean(), for a matrix with a stored entry
DataMean(matrix) ==
    RDiv(RSum(matrix.data, DOMAIN matrix.data), RInt(Nnz(matrix)))

\* the columns of row u, and the rows of column i, whose entry is > 0
PositiveItems(matrix, u) ==
    {c \in DOMAIN matrix.data : c[1] = u /\ RLt(RZero, matrix.data[c])}
PositiveUsers(matrix, i) ==
    {c \in DOMAIN matrix.data : c[2] = i /\ RLt(RZero, matrix.data[c])}

\* a table of n_rows rows and n_cols columns produced by a numerical kernel
\* (svds, np.random.randn, np.linalg.solve): the table the seed selects.
\* The rows of one table differ in length and in sign; from seed 3 on the
\* rows point the same way and grow with the row number.
FactorTable(n_rows, n_cols, seed) ==
    [r \in 1..n_rows |->
        [c \in 1..n_cols |->
            IF c = 1 THEN ((r * seed) % 3) - 1 + 2 * (seed \div 3) * r ELSE 0]]

\* np.zeros(n)
Zeros(n) == [r \in 1..n |-> RZero]

\* a @ b of two rows of equal length
RECURSIVE DotFrom(_, _, _)
DotFrom(a, b, j) == IF j > Len(a) THEN 0 ELSE a[j] * b[j] + DotFrom(a, b, j + 1)
Dot(a, b) == RInt(DotFrom(a, b, 1))

\* the mean of the function f over the non-empty set S of matrix coordinates
MeanOver(f, S) == RDiv(RSum(f, S), RInt(Cardinality(S)))

\* a _train_svd whose except branch installs nothing: the tables stay empty
TrainSvdNoFallback(matrix, global_bias, seed, svd_fails) ==
    LET n_users == matrix.n_users
        n_items == matrix.n_items
        k == Min2(n_factors, Min2(n_users, n_items) - 1)
    IN  IF k <= 0 \/ svd_fails
        THEN [user_factors |-> <<>>, item_factors |-> <<>>,
              user_bias |-> <<>>, item_bias |-> <<>>]
        ELSE [user_factors |-> FactorTable(n_users, k, seed),
              item_factors |-> FactorTable(n_items, k, seed + 1),
              user_bias |-> Zeros(n_users),
              item_bias |-> Zeros(n_items)]

\* _train_svd: the tables it leaves.  svds raises for k <= 0 (a single user or
\* a single item) and may fail to converge (svd_fails); the except branch
\* installs random factors of n_factors columns and zero biases.
TrainSvd(matrix, global_bias, seed, svd_fails) ==
    LET n_users == matrix.n_users
        n_items == matrix.n_items
        k == Min2(n_factors, Min2(n_users, n_items) - 1)
        residual(c) == RSub(matrix.data[c], global_bias)
    IN  IF k <= 0 \/ svd_fails
        THEN [user_factors |-> FactorTable(n_users, n_factors, seed),
              item_factors |-> FactorTable(n_items, n_factors, seed + 1),
              user_bias |-> Zeros(n_users),
              item_bias |-> Zeros(n_items)]
        ELSE [user_factors |-> FactorTable(n_users, k, seed),
              item_factors |-> FactorTable(n_items, k, seed + 1),
              user_bias |-> [r \in 1..n_users |->
                                IF PositiveItems(matrix, r - 1) = {} THEN RZero
                                ELSE MeanOver([c \in PositiveItems(matrix, r - 1) |-> residual(c)],
                                               PositiveItems(matrix, r - 1))],
              item_bias |-> [r \in 1..n_items |->
                                IF PositiveUsers(matrix, r - 1) = {} THEN RZero
                                ELSE MeanOver([c \in PositiveUsers(matrix, r - 1) |-> residual(c)],
                                               PositiveUsers(matrix, r - 1))]]

\* _train_als: the tables after the last iteration.  The factors are the
\* solver's; each bias is the mean residual against the final factors.
TrainAls(matrix, global_bias, seed) ==
    LET n_users == matrix.n_users
        n_items == matrix.n_items
        user_factors == FactorTable(n_users, n_factors, seed)
        item_factors == FactorTable(n_items, n_factors, seed + 1)
        residual(c) ==
            RSub(RSub(matrix.data[c], global_bias),
                 Dot(user_factors[c[1] + 1], item_factors[c[2] + 1]))
    IN  [user_factors |-> user_factors,
         item_factors |-> item_factors,
         user_bias |-> [r \in 1..n_users |->
                           IF PositiveItems(matrix, r - 1) = {} THEN RZero
                           ELSE MeanOver([c \in PositiveItems(matrix, r - 1) |-> residual(c)],
                                               PositiveItems(matrix, r - 1))],
         item_bias |-> [r \in 1..n_items |->
                           IF PositiveUsers(matrix, r - 1) = {} THEN RZero
                           ELSE MeanOver([c \in PositiveUsers(matrix, r - 1) |-> residual(c)],
                                               PositiveUsers(matrix, r - 1))]]

\* CollaborativeFilter.__init__
CFInit ==
    [user_factors |-> None, item_factors |-> None,
     user_bias |-> None, item_bias |-> None,
     global_bias |-> RZero,
     user_id_map |-> EmptyMap, item_id_map |-> EmptyMap,
     reverse_user_map |-> EmptyMap, reverse_item_map |-> EmptyMap,
     is_trained |-> FALSE]

\* CollaborativeFilter.train: the filter after the call.  The id maps are
\* replaced before the matrix is looked at; an empty matrix returns early.
CFTrain(self, interactions, use_svd, seed, svd_fails) ==
    LET matrix == CreateInteractionMatrix(interactions)
        mapped == [self EXCEPT !.user_id_map = matrix.user_id_map,
                               !.item_id_map = matrix.item_id_map,
                               !.reverse_user_map = ReverseMap(matrix.user_id_map),
                               !.reverse_item_map = ReverseMap(matrix.item_id_map)]
        global_bias == DataMean(matrix)
        tables == IF use_svd THEN TrainSvd(matrix, global_bias, seed, svd_fails)
                  ELSE TrainAls(matrix, global_bias, seed)
    IN  IF Nnz(matrix) = 0 THEN mapped
        ELSE [mapped EXCEPT !.global_bias = global_bias,
                            !.user_factors = Some(tables.user_factors),
                            !.item_factors = Some(tables.item_factors),
                            !.user_bias = Some(tables.user_bias),
                            !.item_bias = Some(tables.item_bias),
                            !.is_trained = TRUE]

\* a cold start that leaves out the popularity of the item
ColdStartScoreGlobal(self, item_id) == self.global_bias

\* the score predict gives one item of a user that is not in user_id_map
ColdStartScore(self, item_id) ==
    IF ~IsNone(self.item_bias)
    THEN IF item_id \in DOMAIN self.item_id_map
         THEN RAdd(self.global_bias, Val(self.item_bias)[self.item_id_map[item_id] + 1])
         ELSE self.global_bias
    ELSE self.global_bias

\* the score predict gives one item of a user that is in user_id_map
KnownUserScore(self, user_idx, item_id) ==
    IF item_id \notin DOMAIN self.item_id_map
    THEN IF ~IsNone(self.user_bias)
         THEN RAdd(self.global_bias, Val(self.user_bias)[user_idx + 1])
         ELSE self.global_bias
    ELSE LET item_idx == self.item_id_map[item_id]
         IN  IF /\ ~IsNone(self.user_bias) /\ ~IsNone(self.item_bias)
                /\ ~IsNone(self.user_factors) /\ ~IsNone(self.item_factors)
             THEN RAdd(RAdd(RAdd(self.global_bias, Val(self.user_bias)[user_idx + 1]),
                            Val(self.item_bias)[item_idx + 1]),
                       Dot(Val(self.user_factors)[user_idx + 1],
                           Val(self.item_factors)[item_idx + 1]))
             ELSE self.global_bias

\* a predict that answers an untrained model with no scores at all
CFPredictNoneUntrained(self, user_id, item_ids) ==
    IF ~self.is_trained THEN <<>>
    ELSE IF user_id \notin DOMAIN self.user_id_map
         THEN [j \in 1..Len(item_ids) |-> ColdStartScore(self, item_ids[j])]
         ELSE [j \in 1..Len(item_ids) |->
                  KnownUserScore(self, self.user_id_map[user_id], item_ids[j])]

\* CollaborativeFilter.predict
CFPredict(self, user_id, item_ids) ==
    IF ~self.is_trained THEN [j \in 1..Len(item_ids) |-> RZero]
    ELSE IF user_id \notin DOMAIN self.user_id_map
         THEN [j \in 1..Len(item_ids) |-> ColdStartScore(self, item_ids[j])]
         ELSE [j \in 1..Len(item_ids) |->
                  KnownUserScore(self, self.user_id_map[user_id], item_ids[j])]

\* a recommend_items whose sort puts equal scores in reverse input order
CFRecommendItemsTiesReversed(self, user_id, item_candidates, top_k) ==
    IF item_candidates = <<>> THEN <<>>
    ELSE LET scores == CFPredict(self, user_id, item_candidates)
             n == Len(item_candidates)
             recommendations ==
                 [j \in 1..n |->
                     [id |-> item_candidates[n + 1 - j], score |-> scores[n + 1 - j]]]
         IN  Prefix(SortDesc(recommendations), top_k)

\* CollaborativeFilter.recommend_items
CFRecommendItems(self, user_id, item_candidates, top_k) ==
    IF item_candidates = <<>> THEN <<>>
    ELSE LET scores == CFPredict(self, user_id, item_candidates)
             recommendations ==
                 [j \in 1..Len(item_candidates) |->
                     [id |-> item_candidates[j], score |-> scores[j]]]
         IN  Prefix(SortDesc(recommendations), top_k)

\* the similarities of get_similar_items: self.item_factors @ item_vector,
\* one value per row of the item table
Similarities(self, item_id) ==
    LET item_vector == Val(self.item_factors)[self.item_id_map[item_id] + 1]
    IN  [r \in 1..Len(Val(self.item_factors)) |->
            Dot(Val(self.item_factors)[r], item_vector)]

\* the values np.argsort(similarities)[::-1] can have: the row indices in an
\* order of non-increasing similarity (the order among equal values is the
\* sorting kernel's)
ArgSortDescending(similarities) ==
    {q \in Orders({r - 1 : r \in 1..Len(similarities)}) :
        \A j \in 1..(Len(q) - 1) :
            RLe(similarities[q[j + 1] + 1], similarities[q[j] + 1])}

\* the pairs of get_similar_items for similar_indices from position j on
RECURSIVE SimilarItems(_, _, _, _)
SimilarItems(self, similarities, similar_indices, j) ==
    IF j > Len(similar_indices) THEN <<>>
    ELSE LET idx == similar_indices[j]
             rest == SimilarItems(self, similarities, similar_indices, j + 1)
         IN  IF idx \in DOMAIN self.reverse_item_map
             THEN <<[id |-> self.reverse_item_map[idx],
                     score |-> similarities[idx + 1]]>> \o rest
             ELSE rest

\* CollaborativeFilter.get_similar_items; sorted_indices is the value of
\* np.argsort(similarities)[::-1], of which [1:top_k+1] is kept
CFGetSimilarItems(self, item_id, top_k, sorted_indices) ==
    IF ~self.is_trained \/ item_id \notin DOMAIN self.item_id_map
       \/ IsNone(self.item_factors)
    THEN <<>>
    ELSE LET similarities == Similarities(self, item_id)
             similar_indices ==
                 SubSeq(sorted_indices, 2, Min2(top_k + 1, Len(sorted_indices)))
         IN  SimilarItems(self, similarities, similar_indices, 1)

----------------------------------------------------------------------------
(* GNNRecommender (gnn_recommender.py), model_type 'lightgcn', with        *)
(* PyTorch and PyTorch Geometric installed.                                *)
(*                                                                         *)
(* The LightGCN model is a record [num_users, num_items, seed, fitted]:    *)
(* the sizes of its two embedding tables, the seed that selects their      *)
(* contents, and whether a train call has run to its end on this model     *)
(* object since build_graph constructed it.                                *)
(* The forward pass (propagation over edge_index and layer averaging) is   *)
(* not computed: the embeddings it returns are the tables the seed selects.*)

\* try: import torch
TORCH_AVAILABLE == TRUE

\* GNNRecommender(model_type='lightgcn', embedding_dim=64)
embedding_dim == 64

\* GNNRecommender.__init__
GNNInit ==
    [model |-> None,
     user_id_map |-> EmptyMap, item_id_map |-> EmptyMap,
     reverse_user_map |-> EmptyMap, reverse_item_map |-> EmptyMap,
     is_trained |-> FALSE,
     edge_index |-> None]

\* edge_list of build_graph: [user_idx, item_idx + num_users] and its reverse,
\* for each interaction in turn
RECURSIVE EdgeList(_, _, _, _)
EdgeList(interactions, user_id_map, item_id_map, num_users) ==
    IF interactions = <<>> THEN <<>>
    ELSE LET user_idx == user_id_map[interactions[1].user_id]
             item_idx == item_id_map[interactions[1].item_id] + num_users
         IN  <<<<user_idx, item_idx>>, <<item_idx, user_idx>>>>
             \o EdgeList(Tail(interactions), user_id_map, item_id_map, num_users)

\* a build_graph that constructs a model only when there is none yet
GNNBuildGraphKeepsModel(self, interactions, seed) ==
    LET unique_users == {interactions[k].user_id : k \in 1..Len(interactions)}
        unique_items == {interactions[k].item_id : k \in 1..Len(interactions)}
        user_id_map == IdMap(unique_users)
        item_id_map == IdMap(unique_items)
        num_users == Cardinality(unique_users)
        edge_list == EdgeList(interactions, user_id_map, item_id_map, num_users)
        mapped == [self EXCEPT !.user_id_map = user_id_map,
                               !.item_id_map = item_id_map,
                               !.reverse_user_map = ReverseMap(user_id_map),
                               !.reverse_item_map = ReverseMap(item_id_map)]
    IN  IF edge_list = <<>> THEN mapped
        ELSE [mapped EXCEPT !.edge_index = Some(edge_list),
                            !.model = IF IsNone(self.model)
                                      THEN Some([num_users |-> num_users,
                                                 num_items |-> Cardinality(unique_items),
                                                 seed |-> seed,
                                                 fitted |-> FALSE])
                                      ELSE self.model]

\* a build_graph that stores the user-to-item edge of each interaction only
GNNBuildGraphOneWay(self, interactions, seed) ==
    LET unique_users == {interactions[k].user_id : k \in 1..Len(interactions)}
        unique_items == {interactions[k].item_id : k \in 1..Len(interactions)}
        user_id_map == IdMap(unique_users)
        item_id_map == IdMap(unique_items)
        num_users == Cardinality(unique_users)
        edge_list == [k \in 1..Len(interactions) |->
                         <<user_id_map[interactions[k].user_id],
                           item_id_map[interactions[k].item_id] + num_users>>]
        mapped == [self EXCEPT !.user_id_map = user_id_map,
                               !.item_id_map = item_id_map,
                               !.reverse_user_map = ReverseMap(user_id_map),
                               !.reverse_item_map = ReverseMap(item_id_map)]
    IN  IF edge_list = <<>> THEN mapped
        ELSE [mapped EXCEPT !.edge_index = Some(edge_list),
                            !.model = Some([num_users |-> num_users,
                                            num_items |-> Cardinality(unique_items),
                                            seed |-> seed,
                                            fitted |-> FALSE])]

\* GNNRecommender.build_graph: the recommender after the call.  seed selects
\* the initial contents of the new model's embedding tables.
GNNBuildGraph(self, interactions, seed) ==
    LET unique_users == {interactions[k].user_id : k \in 1..Len(interactions)}
        unique_items == {interactions[k].item_id : k \in 1..Len(interactions)}
        user_id_map == IdMap(unique_users)
        item_id_map == IdMap(unique_items)
        num_users == Cardinality(unique_users)
        num_items == Cardinality(unique_items)
        edge_list == EdgeList(interactions, user_id_map, item_id_map, num_users)
        mapped == [self EXCEPT !.user_id_map = user_id_map,
                               !.item_id_map = item_id_map,
                               !.reverse_user_map = ReverseMap(user_id_map),
                               !.reverse_item_map = ReverseMap(item_id_map)]
    IN  IF ~TORCH_AVAILABLE THEN self
        ELSE IF edge_list = <<>> THEN mapped
        ELSE [mapped EXCEPT !.edge_index = Some(edge_list),
                            !.model = Some([num_users |-> num_users,
                                            num_items |-> num_items,
                                            seed |-> seed,
                                            fitted |-> FALSE])]

\* whether self.user_id_map[...] or self.item_id_map[...] raises KeyError for
\* an interaction that train samples
NotInGraph(self, interaction) ==
    \/ interaction.user_id \notin DOMAIN self.user_id_map
    \/ interaction.item_id \notin DOMAIN self.item_id_map

\* whether GNNRecommender.train raises in its first epoch: with a model and
\* no interaction, num_samples is 0 and loss / num_samples divides by zero;
\* with interactions none of which is in the graph, the first sample raises
\* KeyError.
GNNTrainRaises(self, interactions) ==
    /\ TORCH_AVAILABLE /\ ~IsNone(self.model)
    /\ \A k \in 1..Len(interactions) : NotInGraph(self, interactions[k])

\* whether GNNRecommender.train can raise in a later epoch: an interaction
\* that is not in the graph may be sampled after steps were taken
GNNTrainMayRaise(self, interactions) ==
    /\ TORCH_AVAILABLE /\ ~IsNone(self.model)
    /\ \E k \in 1..Len(interactions) : NotInGraph(self, interactions[k])

\* GNNRecommender.train that raised after optimizer steps: the embedding
\* tables have moved, is_trained was not assigned
GNNTrainInterrupted(self, seed) ==
    [self EXCEPT !.model = Some([Val(self.model) EXCEPT !.seed = seed])]

\* GNNRecommender.train, one epoch or more: the recommender after the call.
\* seed selects the contents of the embedding tables after the last step.
GNNTrain(self, interactions, seed) ==
    IF ~TORCH_AVAILABLE \/ IsNone(self.model) THEN self
    ELSE IF GNNTrainRaises(self, interactions) THEN self
    ELSE [self EXCEPT !.model = Some([Val(self.model) EXCEPT !.seed = seed,
                                                             !.fitted = TRUE]),
                      !.is_trained = TRUE]

\* user_emb, item_emb = self.model(self.edge_index)
UserEmb(model) == FactorTable(model.num_users, embedding_dim, model.seed)
ItemEmb(model) == FactorTable(model.num_items, embedding_dim, model.seed + 1)

\* the candidates that are in item_id_map, each with its score, in order
RECURSIVE GNNScores(_, _, _)
GNNScores(self, user_idx, item_candidates) ==
    IF item_candidates = <<>> THEN <<>>
    ELSE LET item_id == item_candidates[1]
             rest == GNNScores(self, user_idx, Tail(item_candidates))
         IN  IF item_id \in DOMAIN self.item_id_map
             THEN <<[id |-> item_id,
                     score |-> Dot(UserEmb(Val(self.model))[user_idx + 1],
                                   ItemEmb(Val(self.model))[self.item_id_map[item_id] + 1])]>>
                  \o rest
             ELSE rest

\* a recommend_items that returns the first top_k scores as they come
GNNRecommendItemsUnsorted(self, user_id, item_candidates, top_k) ==
    IF ~self.is_trained \/ ~TORCH_AVAILABLE THEN <<>>
    ELSE IF user_id \notin DOMAIN self.user_id_map THEN <<>>
    ELSE LET scores == IF ~IsNone(self.model)
                       THEN GNNScores(self, self.user_id_map[user_id], item_candidates)
                       ELSE <<>>
         IN  Prefix(scores, top_k)

\* GNNRecommender.recommend_items
GNNRecommendItems(self, user_id, item_candidates, top_k) ==
    IF ~self.is_trained \/ ~TORCH_AVAILABLE THEN <<>>
    ELSE IF user_id \notin DOMAIN self.user_id_map THEN <<>>
    ELSE LET scores == IF ~IsNone(self.model)
                       THEN GNNScores(self, self.user_id_map[user_id], item_candidates)
                       ELSE <<>>
         IN  Prefix(SortDesc(scores), top_k)

----------------------------------------------------------------------------
(* HybridEnsemble (hybrid_ensemble.py)                                     *)
(*                                                                         *)
(* The operators below take the coordinator as a record                    *)
(*   self = [ensemble_method, weights, models_ready, collaborative, gnn].  *)

\* self.weights of __init__
DefaultWeights ==
    [content |-> Rat(3, 10), collaborative |-> Rat(4, 10), gnn |-> Rat(3, 10)]

\* self.models_ready of __init__
ModelsReadyInit == [content |-> TRUE, collaborative |-> FALSE, gnn |-> FALSE]

\* str(x) of an id: the ids of candidate profiles are strings already
Str(id) == id

\* a normalization that divides by the spread without subtracting the
\* minimum: the smallest score is then not mapped to 0
NormalizeScoresUnshifted(scores) ==
    IF scores = <<>> THEN EmptyMap
    ELSE LET score_values == [i \in 1..Len(scores) |-> scores[i].score]
             min_score == RMinSeq(score_values)
             max_score == RMaxSeq(score_values)
         IN  IF max_score = min_score
             THEN [id \in Range(Ids(scores)) |-> RHalf]
             ELSE [id \in Range(Ids(scores)) |->
                      LET i == CHOOSE i \in 1..Len(scores) : scores[i].id = id
                      IN  RDiv(scores[i].score, RSub(max_score, min_score))]

\* _normalize_scores: a list of (id, score) pairs to a dict {id: value}; a
\* later pair of an id overwrites an earlier one
NormalizeScores(scores) ==
    IF scores = <<>> THEN EmptyMap
    ELSE LET score_values == [i \in 1..Len(scores) |-> scores[i].score]
             min_score == RMinSeq(score_values)
             max_score == RMaxSeq(score_values)
             lastpos(id) == CHOOSE i \in 1..Len(scores) :
                               /\ scores[i].id = id
                               /\ \A j \in (i + 1)..Len(scores) : scores[j].id # id
         IN  IF max_score = min_score
             THEN [id \in Range(Ids(scores)) |-> RHalf]
             ELSE [id \in Range(Ids(scores)) |->
                      RDiv(RSub(scores[lastpos(id)].score, min_score),
                           RSub(max_score, min_score))]

\* the (score, weight_sum) pair after one "if item_id in ... and ready" step
AddModel(acc, applies, weight, model_scores, item_id) ==
    IF applies
    THEN [score |-> RAdd(acc.score, RMul(weight, model_scores[item_id])),
          weight_sum |-> RAdd(acc.weight_sum, weight)]
    ELSE acc

\* a fusion that divides by the sum of all three weights, whichever models
\* scored the item
WeightedEnsembleAllWeights(self, content_scores, cf_scores, gnn_scores) ==
    LET all_items == DOMAIN content_scores \cup DOMAIN cf_scores \cup DOMAIN gnn_scores
        total == RAdd(RAdd(self.weights.content, self.weights.collaborative),
                      self.weights.gnn)
        Term(applies, weight, model_scores, item_id) ==
            IF applies THEN RMul(weight, model_scores[item_id]) ELSE RZero
        Final(item_id) ==
            RDiv(RAdd(RAdd(Term(item_id \in DOMAIN content_scores
                                /\ self.models_ready.content,
                                self.weights.content, content_scores, item_id),
                           Term(item_id \in DOMAIN cf_scores
                                /\ self.models_ready.collaborative,
                                self.weights.collaborative, cf_scores, item_id)),
                      Term(item_id \in DOMAIN gnn_scores /\ self.models_ready.gnn,
                           self.weights.gnn, gnn_scores, item_id)),
                 total)
    IN  [item_id \in all_items |-> Final(item_id)]

\* a fusion in which a model's influence falls with its weight: each score
\* is divided by the weight of its model
WeightedEnsembleInverseWeights(self, content_scores, cf_scores, gnn_scores) ==
    LET all_items == DOMAIN content_scores \cup DOMAIN cf_scores \cup DOMAIN gnn_scores
        Inverse(weight) == RDiv(ROne, weight)
        Final(item_id) ==
            LET a0 == [score |-> RZero, weight_sum |-> RZero]
                a1 == AddModel(a0, item_id \in DOMAIN content_scores
                                   /\ self.models_ready.content
                                   /\ RLt(RZero, self.weights.content),
                               Inverse(self.weights.content), content_scores, item_id)
                a2 == AddModel(a1, item_id \in DOMAIN cf_scores
                                   /\ self.models_ready.collaborative
                                   /\ RLt(RZero, self.weights.collaborative),
                               Inverse(self.weights.collaborative), cf_scores, item_id)
                a3 == AddModel(a2, item_id \in DOMAIN gnn_scores
                                   /\ self.models_ready.gnn
                                   /\ RLt(RZero, self.weights.gnn),
                               Inverse(self.weights.gnn), gnn_scores, item_id)
            IN  IF RLt(RZero, a3.weight_sum)
                THEN RDiv(a3.score, a3.weight_sum)
                ELSE a3.score
    IN  [item_id \in all_items |-> Final(item_id)]

\* _weighted_ensemble
WeightedEnsemble(self, content_scores, cf_scores, gnn_scores) ==
    LET all_items == DOMAIN content_scores \cup DOMAIN cf_scores \cup DOMAIN gnn_scores
        Final(item_id) ==
            LET a0 == [score |-> RZero, weight_sum |-> RZero]
                a1 == AddModel(a0, item_id \in DOMAIN content_scores
                                   /\ self.models_ready.content,
                               self.weights.content, content_scores, item_id)
                a2 == AddModel(a1, item_id \in DOMAIN cf_scores
                                   /\ self.models_ready.collaborative,
                               self.weights.collaborative, cf_scores, item_id)
                a3 == AddModel(a2, item_id \in DOMAIN gnn_scores
                                   /\ self.models_ready.gnn,
                               self.weights.gnn, gnn_scores, item_id)
            IN  IF RLt(RZero, a3.weight_sum)
                THEN RDiv(a3.score, a3.weight_sum)
                ELSE a3.score
    IN  [item_id \in all_items |-> Final(item_id)]

\* a stage 1 that hands on every candidate when the graph model is not ready
CascadeStage1Full(self, user_id, item_candidates, top_k) ==
    IF self.models_ready.gnn
    THEN Ids(GNNRecommendItems(self.gnn, user_id, item_candidates,
                               Min2(Len(item_candidates), top_k * 5)))
    ELSE item_candidates

\* stage 1 of _cascading_ensemble: the candidate ids the graph model hands on
CascadeStage1(self, user_id, item_candidates, top_k) ==
    IF self.models_ready.gnn
    THEN Ids(GNNRecommendItems(self.gnn, user_id, item_candidates,
                               Min2(Len(item_candidates), top_k * 5)))
    ELSE Prefix(item_candidates, top_k * 3)

\* stage 2 of _cascading_ensemble: the candidate ids after collaborative ranking
CascadeStage2(self, user_id, candidate_ids, top_k) ==
    IF self.models_ready.collaborative /\ candidate_ids # <<>>
    THEN Ids(CFRecommendItems(self.collaborative, user_id, candidate_ids, top_k * 2))
    ELSE candidate_ids

\* a stage 3 that ranks every profile it is given, survivor or not
CascadeStage3Unfiltered(user_data, candidate_ids, items_data, top_k) ==
    ContentRecommendMentors(user_data, items_data, top_k)

\* stage 3 of _cascading_ensemble: the content model on the surviving
\* candidates.  A profile of kind "mentor" has the key 'domains', one of kind
\* "session" the key 'subject'.
CascadeStage3(user_data, candidate_ids, items_data, top_k) ==
    LET Survives(item) == Str(item.id) \in Range(candidate_ids)
        candidate_items_data == SelectSeq(items_data, Survives)
        kept == Prefix(candidate_ids, top_k)
    IN  IF candidate_items_data # <<>>
        THEN IF candidate_items_data[1].kind = "mentor"
             THEN ContentRecommendMentors(user_data, candidate_items_data, top_k)
             ELSE IF candidate_items_data[1].kind = "session"
             THEN ContentRecommendSessions(user_data, candidate_items_data, top_k)
             ELSE ContentRecommendGroups(user_data, candidate_items_data, top_k)
        ELSE [i \in 1..Len(kept) |-> [id |-> kept[i], score |-> RHalf]]

\* _cascading_ensemble
CascadingEnsemble(self, user_id, item_candidates, user_data, items_data, top_k) ==
    LET stage1 == CascadeStage1(self, user_id, item_candidates, top_k)
        stage2 == CascadeStage2(self, user_id, stage1, top_k)
    IN  CascadeStage3(user_data, stage2, items_data, top_k)

\* user_data.get('streak', 0)
UserActivity(user_data) == IF IsNone(user_data.streak) THEN 0 ELSE Val(user_data.streak)

\* a routing that counts a streak of 5 as a new user and a streak of 30 as
\* an active one
ContextAwareRoutingInclusive(user_data, recommendation_type) ==
    LET user_activity == UserActivity(user_data)
        base ==
            IF user_activity <= 5
            THEN [content |-> Rat(7, 10), collaborative |-> Rat(2, 10), gnn |-> Rat(1, 10)]
            ELSE IF user_activity >= 30
            THEN [content |-> Rat(2, 10), collaborative |-> Rat(4, 10), gnn |-> Rat(4, 10)]
            ELSE [content |-> Rat(3, 10), collaborative |-> Rat(4, 10), gnn |-> Rat(3, 10)]
        adjusted ==
            IF recommendation_type = "mentor"
            THEN [base EXCEPT !.content = RAdd(@, Rat(1, 10)),
                              !.gnn = RSub(@, Rat(1, 10))]
            ELSE IF recommendation_type = "group"
            THEN [base EXCEPT !.gnn = RAdd(@, Rat(15, 100)),
                              !.content = RSub(@, Rat(15, 100))]
            ELSE base
        total == RAdd(RAdd(adjusted.content, adjusted.collaborative), adjusted.gnn)
    IN  [k \in DOMAIN adjusted |-> RDiv(adjusted[k], total)]

\* _context_aware_routing
ContextAwareRouting(user_data, recommendation_type) ==
    LET user_activity == UserActivity(user_data)
        is_new_user == user_activity < 5
        base ==
            IF is_new_user
            THEN [content |-> Rat(7, 10), collaborative |-> Rat(2, 10), gnn |-> Rat(1, 10)]
            ELSE IF user_activity > 30
            THEN [content |-> Rat(2, 10), collaborative |-> Rat(4, 10), gnn |-> Rat(4, 10)]
            ELSE [content |-> Rat(3, 10), collaborative |-> Rat(4, 10), gnn |-> Rat(3, 10)]
        adjusted ==
            IF recommendation_type = "mentor"
            THEN [base EXCEPT !.content = RAdd(@, Rat(1, 10)),
                              !.gnn = RSub(@, Rat(1, 10))]
            ELSE IF recommendation_type = "group"
            THEN [base EXCEPT !.gnn = RAdd(@, Rat(15, 100)),
                              !.content = RSub(@, Rat(15, 100))]
            ELSE base
        total == RAdd(RAdd(adjusted.content, adjusted.collaborative), adjusted.gnn)
    IN  [k \in DOMAIN adjusted |-> RDiv(adjusted[k], total)]

\* [str(m.get('_id')) for m in candidates]
CandidateIds(candidates) == [i \in 1..Len(candidates) |-> Str(candidates[i].id)]

\* the scores of a recommend call with the content scores left as the
\* content model returned them, not normalized
ModelScoresRawContent(self, kind, user_id, user_data, candidates) ==
    LET ids == CandidateIds(candidates)
        content_recs == ContentRecommend(kind, user_data, candidates, Len(candidates))
    IN  [content |-> [id \in Range(Ids(content_recs)) |->
                         content_recs[CHOOSE i \in 1..Len(content_recs) :
                                         content_recs[i].id = id].score],
         cf |->
            IF self.models_ready.collaborative
            THEN NormalizeScores(CFRecommendItems(self.collaborative, user_id, ids, Len(ids)))
            ELSE EmptyMap,
         gnn |->
            IF self.models_ready.gnn
            THEN NormalizeScores(GNNRecommendItems(self.gnn, user_id, ids, Len(ids)))
            ELSE EmptyMap]

\* content_scores, cf_scores and gnn_scores of a recommend call: the normalized
\* scores of each model, {} for a model that is not ready
ModelScores(self, kind, user_id, user_data, candidates) ==
    LET ids == CandidateIds(candidates)
    IN  [content |->
            NormalizeScores(ContentRecommend(kind, user_data, candidates, Len(candidates))),
         cf |->
            IF self.models_ready.collaborative
            THEN NormalizeScores(CFRecommendItems(self.collaborative, user_id, ids, Len(ids)))
            ELSE EmptyMap,
         gnn |->
            IF self.models_ready.gnn
            THEN NormalizeScores(GNNRecommendItems(self.gnn, user_id, ids, Len(ids)))
            ELSE EmptyMap]

\* all_items of _weighted_ensemble for the scores of a recommend call
AllItems(sc) == DOMAIN sc.content \cup DOMAIN sc.cf \cup DOMAIN sc.gnn

\* a ranking in ascending order of score
RankedAscending(final_scores, order, top_k) ==
    LET descending == SortDesc([i \in 1..Len(order) |->
                                   [id |-> order[i], score |-> final_scores[order[i]]]])
    IN  Prefix([i \in 1..Len(descending) |-> descending[Len(descending) + 1 - i]], top_k)

\* sorted(final_scores.items(), key=lambda x: x[1], reverse=True)[:top_k].
\* order is the order in which the dict holds its keys: _weighted_ensemble
\* fills it in the iteration order of a set, which Python does not fix.
Ranked(final_scores, order, top_k) ==
    Prefix(SortDesc([i \in 1..Len(order) |->
                        [id |-> order[i], score |-> final_scores[order[i]]]]), top_k)

\* the fusion step of a recommend call under the weights w.  interrupt: an
\* exception is raised inside _weighted_ensemble.
Fuse(self, w, sc, order, top_k, interrupt) ==
    IF interrupt
    THEN [results |-> <<>>, raised |-> TRUE]
    ELSE [results |-> Ranked(WeightedEnsemble([self EXCEPT !.weights = w],
                                              sc.content, sc.cf, sc.gnn),
                             order, top_k),
          raised |-> FALSE]

\* a context-aware branch that leaves the context weights installed
FuseContextAwareKeeps(self, kind, user_data, sc, order, top_k, interrupt) ==
    LET adaptive_weights == ContextAwareRouting(user_data, kind)
        fused == Fuse(self, adaptive_weights, sc, order, top_k, interrupt)
    IN  [results |-> fused.results,
         raised |-> fused.raised,
         weights |-> adaptive_weights]

\* the 'context_aware' branch of a recommend call: self.weights is replaced
\* by the context weights, the scores are fused, self.weights is put back.
\* The assignment that puts it back is not reached when the fusion raises.
FuseContextAware(self, kind, user_data, sc, order, top_k, interrupt) ==
    LET adaptive_weights == ContextAwareRouting(user_data, kind)
        old_weights == self.weights
        fused == Fuse(self, adaptive_weights, sc, order, top_k, interrupt)
    IN  [results |-> fused.results,
         raised |-> fused.raised,
         weights |-> IF fused.raised THEN adaptive_weights ELSE old_weights]

\* the 'weighted' branch of a recommend call
FuseWeighted(self, sc, order, top_k, interrupt) ==
    LET fused == Fuse(self, self.weights, sc, order, top_k, interrupt)
    IN  [results |-> fused.results, raised |-> fused.raised, weights |-> self.weights]

\* recommend_mentors: what it returns (results; the explanation of each
\* result is left out), whether it raised, and self.weights after the call
RecommendMentors(self, user_id, user_data, mentor_candidates, top_k, order, interrupt) ==
    IF mentor_candidates = <<>>
    THEN [results |-> <<>>, raised |-> FALSE, weights |-> self.weights]
    ELSE LET sc == ModelScores(self, "mentor", user_id, user_data, mentor_candidates)
         IN  IF self.ensemble_method = "weighted"
             THEN FuseWeighted(self, sc, order, top_k, interrupt)
             ELSE IF self.ensemble_method = "context_aware"
             THEN FuseContextAware(self, "mentor", user_data, sc, order, top_k, interrupt)
             ELSE IF self.ensemble_method = "cascading"
             THEN [results |-> CascadingEnsemble(self, user_id,
                                                 CandidateIds(mentor_candidates),
                                                 user_data, mentor_candidates, top_k),
                   raised |-> FALSE,
                   weights |-> self.weights]
             ELSE [results |-> Ranked(sc.content, order, top_k),
                   raised |-> FALSE,
                   weights |-> self.weights]

\* a recommend_sessions that rejects an empty candidate list with an error
RecommendSessionsRejectsEmpty(self, user_id, user_data, session_candidates, top_k, order, interrupt) ==
    IF session_candidates = <<>>
    THEN [results |-> <<>>, raised |-> TRUE, weights |-> self.weights]
    ELSE LET sc == ModelScores(self, "session", user_id, user_data, session_candidates)
         IN  IF self.ensemble_method = "context_aware"
             THEN FuseContextAware(self, "session", user_data, sc, order, top_k, interrupt)
             ELSE FuseWeighted(self, sc, order, top_k, interrupt)

\* recommend_sessions
RecommendSessions(self, user_id, user_data, session_candidates, top_k, order, interrupt) ==
    IF session_candidates = <<>>
    THEN [results |-> <<>>, raised |-> FALSE, weights |-> self.weights]
    ELSE LET sc == ModelScores(self, "session", user_id, user_data, session_candidates)
         IN  IF self.ensemble_method = "context_aware"
             THEN FuseContextAware(self, "session", user_data, sc, order, top_k, interrupt)
             ELSE FuseWeighted(self, sc, order, top_k, interrupt)

\* recommend_groups
RecommendGroups(self, user_id, user_data, group_candidates, top_k, order, interrupt) ==
    IF group_candidates = <<>>
    THEN [results |-> <<>>, raised |-> FALSE, weights |-> self.weights]
    ELSE LET sc == ModelScores(self, "group", user_id, user_data, group_candidates)
         IN  IF self.ensemble_method = "context_aware"
             THEN FuseContextAware(self, "group", user_data, sc, order, top_k, interrupt)
             ELSE FuseWeighted(self, sc, order, top_k, interrupt)

\* whether a recommend call of this kind reaches _weighted_ensemble
ReachesFusion(self, kind, candidates) ==
    /\ candidates # <<>>
    /\ ~(kind = "mentor" /\ self.ensemble_method = "cascading")

\* get_model_status
GetModelStatus(self) == self.models_ready

\* set_weights: the weights it installs
SetWeights(content, collaborative, gnn_weight) ==
    LET total == content + collaborative + gnn_weight
    IN  [content |-> Rat(content, total),
         collaborative |-> Rat(collaborative, total),
         gnn |-> Rat(gnn_weight, total)]

----------------------------------------------------------------------------
(* GraphBuilder (data/graph_builder.py)                                    *)
(*                                                                         *)
(* A document is a record of optional fields: a key that the document does *)
(* not have is None, so that d.get(key) is the field.  Ids are strings.    *)
(* An edge is a record [source, target, edge_type, weight].                *)

\* str(x) of a field: the id itself, and 'None' for a key that is missing
StrOf(field) == IF IsNone(field) THEN "None" ELSE Val(field)

\* d.get(key, default)
GetOr(field, default) == IF IsNone(field) THEN default ELSE Val(field)

\* GraphBuilder.__init__
GraphBuilderInit ==
    [nodes |-> [users |-> {}, mentors |-> {}, sessions |-> {}, groups |-> {}],
     edges |-> <<>>]

\* self.nodes[node_type].add(node_id)
AddNode(self, node_type, node_id) ==
    [self EXCEPT !.nodes[node_type] = @ \cup {node_id}]

\* self.edges.append({...})
AppendEdge(self, source, target, edge_type, weight) ==
    [self EXCEPT !.edges = Append(@, [source |-> source, target |-> target,
                                      edge_type |-> edge_type, weight |-> weight])]

\* add_user_mentor_edges: the builder after the requests from position j on
RECURSIVE AddUserMentorEdgesFrom(_, _, _)
AddUserMentorEdgesFrom(self, mentorship_requests, j) ==
    IF j > Len(mentorship_requests) THEN self
    ELSE LET request == mentorship_requests[j]
             user_id == StrOf(request.learnerId)
             mentor_id == StrOf(request.mentorId)
             noded == AddNode(AddNode(self, "users", user_id), "mentors", mentor_id)
             edged == IF request.status = Some("accepted")
                      THEN AppendEdge(noded, user_id, mentor_id, "mentored_by", ROne)
                      ELSE noded
         IN  AddUserMentorEdgesFrom(edged, mentorship_requests, j + 1)

\* GraphBuilder.add_user_mentor_edges
AddUserMentorEdges(self, mentorship_requests) ==
    AddUserMentorEdgesFrom(self, mentorship_requests, 1)

\* a session edge for every status there is
AttendanceEdgeAnyStatus(self, session_id, participant) ==
    LET user_id == StrOf(participant.userId)
        status == GetOr(participant.status, "registered")
        noded == AddNode(self, "users", user_id)
    IN  AppendEdge(noded, user_id, session_id, "attended",
                   IF status = "completed" THEN ROne ELSE Rat(7, 10))

\* the body of the participant loop of add_user_session_edges
AttendanceEdge(self, session_id, participant) ==
    LET user_id == StrOf(participant.userId)
        status == GetOr(participant.status, "registered")
        noded == AddNode(self, "users", user_id)
    IN  IF status \in {"completed", "attended", "registered"}
        THEN AppendEdge(noded, user_id, session_id, "attended",
                        IF status = "completed" THEN ROne ELSE Rat(7, 10))
        ELSE noded

\* the participant loop of one session, from position j on
RECURSIVE AttendanceEdgesFrom(_, _, _, _)
AttendanceEdgesFrom(self, session_id, participants, j) ==
    IF j > Len(participants) THEN self
    ELSE AttendanceEdgesFrom(AttendanceEdge(self, session_id, participants[j]),
                             session_id, participants, j + 1)

\* add_user_session_edges: the builder after the sessions from position j on
RECURSIVE AddUserSessionEdgesFrom(_, _, _)
AddUserSessionEdgesFrom(self, study_sessions, j) ==
    IF j > Len(study_sessions) THEN self
    ELSE LET session == study_sessions[j]
             session_id == StrOf(session._id)
             participants == GetOr(session.participants, <<>>)
             noded == AddNode(self, "sessions", session_id)
         IN  AddUserSessionEdgesFrom(
                 AttendanceEdgesFrom(noded, session_id, participants, 1),
                 study_sessions, j + 1)

\* GraphBuilder.add_user_session_edges
AddUserSessionEdges(self, study_sessions) ==
    AddUserSessionEdgesFrom(self, study_sessions, 1)

\* the member loop of one group, from position j on: nodes and member_of edges
RECURSIVE MemberEdgesFrom(_, _, _, _)
MemberEdgesFrom(self, group_id, members, j) ==
    IF j > Len(members) THEN self
    ELSE LET user_id == StrOf(members[j].userId)
             noded == AddNode(self, "users", user_id)
         IN  MemberEdgesFrom(AppendEdge(noded, user_id, group_id, "member_of", ROne),
                             group_id, members, j + 1)

\* the inner loop over member_ids[i+1:], from position k on
RECURSIVE PeerEdgesOf(_, _, _, _)
PeerEdgesOf(self, member_ids, i, k) ==
    IF k > Len(member_ids) THEN self
    ELSE PeerEdgesOf(AppendEdge(self, member_ids[i], member_ids[k], "group_peer", RHalf),
                     member_ids, i, k + 1)

\* the outer loop over enumerate(member_ids), from position i on
RECURSIVE PeerEdgesFrom(_, _, _)
PeerEdgesFrom(self, member_ids, i) ==
    IF i > Len(member_ids) THEN self
    ELSE PeerEdgesFrom(PeerEdgesOf(self, member_ids, i, i + 1), member_ids, i + 1)

\* the edges of one group with a peer edge in each direction of every pair
GroupEdgesBothWays(self, group) ==
    LET group_id == StrOf(group._id)
        members == GetOr(group.members, <<>>)
        n == Len(members)
        member_ids == [m \in 1..n |-> StrOf(members[m].userId)]
        reversed == [m \in 1..n |-> member_ids[n + 1 - m]]
        noded == AddNode(self, "groups", group_id)
        membered == MemberEdgesFrom(noded, group_id, members, 1)
    IN  PeerEdgesFrom(PeerEdgesFrom(membered, member_ids, 1), reversed, 1)

\* the body of the group loop of add_user_group_edges
GroupEdges(self, group) ==
    LET group_id == StrOf(group._id)
        members == GetOr(group.members, <<>>)
        member_ids == [m \in 1..Len(members) |-> StrOf(members[m].userId)]
        noded == AddNode(self, "groups", group_id)
        membered == MemberEdgesFrom(noded, group_id, members, 1)
    IN  PeerEdgesFrom(membered, member_ids, 1)

\* add_user_group_edges: the builder after the groups from position j on
RECURSIVE AddUserGroupEdgesFrom(_, _, _)
AddUserGroupEdgesFrom(self, groups, j) ==
    IF j > Len(groups) THEN self
    ELSE AddUserGroupEdgesFrom(GroupEdges(self, groups[j]), groups, j + 1)

\* GraphBuilder.add_user_group_edges
AddUserGroupEdges(self, groups) == AddUserGroupEdgesFrom(self, groups, 1)

\* add_session_organizer_edges: the builder after the sessions from position j on
RECURSIVE AddSessionOrganizerEdgesFrom(_, _, _)
AddSessionOrganizerEdgesFrom(self, study_sessions, j) ==
    IF j > Len(study_sessions) THEN self
    ELSE LET session == study_sessions[j]
             session_id == StrOf(session._id)
             organizer_id == StrOf(session.organizer)
             noded == AddNode(AddNode(self, "sessions", session_id),
                              "users", organizer_id)
         IN  AddSessionOrganizerEdgesFrom(
                 AppendEdge(noded, organizer_id, session_id, "organizes", Rat(3, 2)),
                 study_sessions, j + 1)

\* GraphBuilder.add_session_organizer_edges
AddSessionOrganizerEdges(self, study_sessions) ==
    AddSessionOrganizerEdgesFrom(self, study_sessions, 1)

\* get_bipartite_graph: the two node lists (as sets: list(set) fixes no
\* order) and the edges, in the order of self.edges, that have one endpoint
\* among the ids of the first type and the other among the ids of the second
GetBipartiteGraph(self, node_type_1, node_type_2) ==
    LET nodes_1 == self.nodes[node_type_1]
        nodes_2 == self.nodes[node_type_2]
        Joins(edge) ==
            \/ edge.source \in nodes_1 /\ edge.target \in nodes_2
            \/ edge.source \in nodes_2 /\ edge.target \in nodes_1
    IN  [nodes_1 |-> nodes_1, nodes_2 |-> nodes_2,
         bipartite_edges |-> SelectSeq(self.edges, Joins)]

----------------------------------------------------------------------------
(* The inputs the model draws *)

Methods == {"weighted", "cascading", "context_aware"}
Kinds == {"mentor", "session", "group"}
Seeds == {1, 2}
\* the numerical outcomes of the coordinator's training runs
CoordinatorSeeds == {1}

\* ids of the users and items of interaction records
UserIds == {1, 2}
ItemIds == {1, 2}
\* the users a prediction or a recommendation is asked for: 3 is in no record
QueryUsers == {1, 2, 3}
\* the items a prediction is asked for: 3 is in no record
QueryItems == {1, 2, 3}

InteractionRecords ==
    [user_id : UserIds, item_id : ItemIds,
     interaction_type : {"view", "complete"}, weight : {1}]

\* every list of at most n elements of S
RECURSIVE SeqsUpTo(_, _)
SeqsUpTo(S, n) ==
    IF n = 0 THEN {<<>>}
    ELSE LET shorter == SeqsUpTo(S, n - 1)
         IN  shorter \cup {Append(q, x) : q \in {t \in shorter : Len(t) = n - 1}, x \in S}

\* the place of a record in the order the lists below are drawn in
RecordRank(r) ==
    4 * (r.user_id - 1) + 2 * (r.item_id - 1)
      + (IF r.interaction_type = "view" THEN 0 ELSE 1)

\* the interaction lists a CollaborativeFilter is trained on.  The matrix
\* does not depend on the order of the records (the id maps come from
\* sorted(set(...)), csr_matrix sums the entries of a cell), so each
\* collection of records is drawn in one order.
InteractionLists ==
    {q \in SeqsUpTo(InteractionRecords, MaxInteractions) :
        \A i \in 1..(Len(q) - 1) : RecordRank(q[i]) <= RecordRank(q[i + 1])}

\* the interaction lists the coordinator's models are trained on: none, one
\* record (a single user and a single item), two users with an item each
CoordinatorSnapshots ==
    {<<>>,
     <<[user_id |-> 1, item_id |-> 1, interaction_type |-> "view", weight |-> 1]>>,
     <<[user_id |-> 1, item_id |-> 1, interaction_type |-> "complete", weight |-> 1],
       [user_id |-> 2, item_id |-> 2, interaction_type |-> "view", weight |-> 1]>>}

\* the users recommendations are asked for: 1 is in every record, 3 in none
RequestUsers == {1, 3}
\* the ids of the candidates of a recommend call of the coordinator
CandidateIdsDrawn == {1, 2}

\* user profiles: without a streak, and with each streak up to MaxStreak
UserProfiles == {[streak |-> None]} \cup {[streak |-> Some(n)] : n \in 0..MaxStreak}
\* the user profiles of recommend calls: a new user and a very active one
RequestProfiles == {[streak |-> None], [streak |-> Some(MaxStreak)]}

Mentor(id, sim) ==
    [kind |-> "mentor", id |-> id, sim |-> sim, success_rate |-> Rat(85, 100),
     current |-> 0, capacity |-> 1, category_match |-> FALSE]
Session(id, sim, current_participants, max_participants) ==
    [kind |-> "session", id |-> id, sim |-> sim, success_rate |-> RZero,
     current |-> current_participants, capacity |-> max_participants,
     category_match |-> FALSE]
Group(id, category_match, member_count, max_members) ==
    [kind |-> "group", id |-> id, sim |-> RZero, success_rate |-> RZero,
     current |-> member_count, capacity |-> max_members,
     category_match |-> category_match]

\* the candidate universes: for each kind, the profile of each candidate id
Catalogues(kind, ids) ==
    CASE kind = "mentor" ->
            {[id \in ids |-> Mentor(id, RHalf)],
             [id \in ids |-> Mentor(id, Rat(id % 3, 2))]}
      [] kind = "session" ->
            {[id \in ids |-> Session(id, Rat(id % 3, 2), (id - 1) * 12, 20)]}
      [] kind = "group" ->
            {[id \in ids |-> Group(id, id % 2 = 1, (id - 1) * 25 + 3, 50)],
             [id \in ids |-> Group(id, TRUE, 3, 50)]}

\* the candidate lists of a kind: at most n candidates with distinct ids among ids
CandidateLists(kind, ids, n) ==
    {[i \in 1..Len(q) |-> cat[q[i]]] :
        q \in DistinctSeqs(ids, n), cat \in Catalogues(kind, ids)}

\* the arguments set_weights is called with: its defaults, and a setting
\* that turns the graph model off
WeightArguments == {<<3, 4, 3>>, <<1, 1, 0>>}

----------------------------------------------------------------------------
(* The coordinator as a state machine: one action per public operation *)

Self ==
    [ensemble_method |-> ensemble_method, weights |-> weights,
     models_ready |-> models_ready, collaborative |-> cf, gnn |-> gnn]

\* no call is in progress: the caller has nothing in hand
Idle == [op |-> "idle"]

\* the caller (RecommendationAPI) hands the outcome of the call on, as a
\* success or an error response, and is ready for the next request
Respond ==
    /\ last # Idle
    /\ last' = Idle
    /\ UNCHANGED <<ensemble_method, weights, models_ready, cf, gnn, builder>>

\* HybridEnsemble.__init__(ensemble_method)
Init ==
    /\ ensemble_method \in Methods
    /\ weights = DefaultWeights
    /\ models_ready = ModelsReadyInit
    /\ cf = CFInit
    /\ gnn = GNNInit
    /\ builder = GraphBuilderInit
    /\ last = Idle

\* a train_collaborative that trains the model and leaves the flag alone
TrainCollaborativeKeepsFlag(interactions, use_svd, seed, svd_fails) ==
    /\ last = Idle
    /\ svd_fails => use_svd
    /\ cf' = CFTrain(cf, interactions, use_svd, seed, svd_fails)
    /\ last' = [op |-> "train_collaborative", interactions |-> interactions,
                raised |-> FALSE]
    /\ UNCHANGED <<ensemble_method, weights, models_ready, gnn, builder>>

\* train_collaborative(interactions, use_svd)
TrainCollaborative(interactions, use_svd, seed, svd_fails) ==
    /\ last = Idle
    /\ svd_fails => use_svd
    /\ cf' = CFTrain(cf, interactions, use_svd, seed, svd_fails)
    /\ models_ready' = [models_ready EXCEPT !.collaborative = cf'.is_trained]
    /\ last' = [op |-> "train_collaborative", interactions |-> interactions,
                raised |-> FALSE]
    /\ UNCHANGED <<ensemble_method, weights, gnn, builder>>

\* train_gnn(interactions): build_graph, then train, then the readiness flag;
\* when train raises the flag is not assigned
TrainGnn(interactions, seed) ==
    LET built == GNNBuildGraph(gnn, interactions, seed)
        raises == GNNTrainRaises(built, interactions)
        trained == GNNTrain(built, interactions, seed)
    IN  /\ last = Idle
        /\ gnn' = trained
        /\ models_ready' = IF raises THEN models_ready
                           ELSE [models_ready EXCEPT !.gnn = trained.is_trained]
        /\ last' = [op |-> "train_gnn", interactions |-> interactions,
                    raised |-> raises]
        /\ UNCHANGED <<ensemble_method, weights, cf, builder>>

\* set_weights(content, collaborative, gnn)
SetWeightsCall(content, collaborative, gnn_weight) ==
    /\ last = Idle
    /\ weights' = SetWeights(content, collaborative, gnn_weight)
    /\ last' = [op |-> "set_weights", raised |-> FALSE]
    /\ UNCHANGED <<ensemble_method, models_ready, cf, gnn, builder>>

\* what a recommend call leaves: self.weights, and the record of the call
Recommended(kind, user_id, user_data, candidates, top_k, out) ==
    /\ weights' = out.weights
    /\ last' = [op |-> "recommend", kind |-> kind, user_id |-> user_id,
                user_data |-> user_data, candidates |-> candidates,
                top_k |-> top_k, raised |-> out.raised, results |-> out.results,
                weights_before |-> weights]
    /\ UNCHANGED <<ensemble_method, models_ready, cf, gnn, builder>>

\* the orders in which final_scores can hold its keys in a recommend call
FusionOrders(kind, user_id, user_data, candidates) ==
    IF ReachesFusion(Self, kind, candidates)
    THEN Orders(AllItems(ModelScores(Self, kind, user_id, user_data, candidates)))
    ELSE {<<>>}

\* recommend_mentors(user_id, user_data, mentor_candidates, top_k)
RecommendMentorsCall(user_id, user_data, candidates, top_k, interrupt) ==
    /\ last = Idle
    /\ interrupt => ReachesFusion(Self, "mentor", candidates)
    /\ \E order \in FusionOrders("mentor", user_id, user_data, candidates) :
          Recommended("mentor", user_id, user_data, candidates, top_k,
                      RecommendMentors(Self, user_id, user_data, candidates, top_k,
                                       order, interrupt))

\* recommend_sessions(user_id, user_data, session_candidates, top_k)
RecommendSessionsCall(user_id, user_data, candidates, top_k, interrupt) ==
    /\ last = Idle
    /\ interrupt => ReachesFusion(Self, "session", candidates)
    /\ \E order \in FusionOrders("session", user_id, user_data, candidates) :
          Recommended("session", user_id, user_data, candidates, top_k,
                      RecommendSessions(Self, user_id, user_data, candidates, top_k,
                                        order, interrupt))

\* recommend_groups(user_id, user_data, group_candidates, top_k)
RecommendGroupsCall(user_id, user_data, candidates, top_k, interrupt) ==
    /\ last = Idle
    /\ interrupt => ReachesFusion(Self, "group", candidates)
    /\ \E order \in FusionOrders("group", user_id, user_data, candidates) :
          Recommended("group", user_id, user_data, candidates, top_k,
                      RecommendGroups(Self, user_id, user_data, candidates, top_k,
                                      order, interrupt))

TrainStep ==
    \/ \E interactions \in CoordinatorSnapshots, use_svd \in BOOLEAN,
          seed \in CoordinatorSeeds, svd_fails \in BOOLEAN :
          TrainCollaborative(interactions, use_svd, seed, svd_fails)
    \/ \E interactions \in CoordinatorSnapshots, seed \in CoordinatorSeeds :
          TrainGnn(interactions, seed)

RecommendStep ==
    \E user_id \in RequestUsers, user_data \in RequestProfiles, top_k \in 1..MaxTopK,
       interrupt \in BOOLEAN :
        \/ \E candidates \in CandidateLists("mentor", CandidateIdsDrawn, MaxCandidates) :
              RecommendMentorsCall(user_id, user_data, candidates, top_k, interrupt)
        \/ \E candidates \in CandidateLists("session", CandidateIdsDrawn, MaxCandidates) :
              RecommendSessionsCall(user_id, user_data, candidates, top_k, interrupt)
        \/ \E candidates \in CandidateLists("group", CandidateIdsDrawn, MaxCandidates) :
              RecommendGroupsCall(user_id, user_data, candidates, top_k, interrupt)

ConfigureStep == \E w \in WeightArguments : SetWeightsCall(w[1], w[2], w[3])

Next == ConfigureStep \/ TrainStep \/ RecommendStep \/ Respond

Spec == Init /\ [][Next]_vars

----------------------------------------------------------------------------
(* The coordinator with method 'cascading': the funnel of recommend_mentors *)

\* one user who interacted with each of the items 1..MaxCandidates
FunnelSnapshot ==
    [k \in 1..MaxCandidates |->
        [user_id |-> 1, item_id |-> k, interaction_type |-> "view", weight |-> 1]]

\* the interaction lists the models behind the funnel are trained on: none,
\* the first two items only, every item
FunnelSnapshots == {<<>>, Prefix(FunnelSnapshot, 2), FunnelSnapshot}

\* the mentor lists the funnel is asked about: the first n mentors in
\* ascending and in descending order of id, for each n up to MaxCandidates
FunnelLists ==
    UNION {{[i \in 1..n |-> cat[i]], [i \in 1..n |-> cat[MaxCandidates + 1 - i]]} :
           n \in 0..MaxCandidates, cat \in Catalogues("mentor", 1..MaxCandidates)}

InitCascade ==
    /\ ensemble_method = "cascading"
    /\ weights = DefaultWeights
    /\ models_ready = ModelsReadyInit
    /\ cf = CFInit
    /\ gnn = GNNInit
    /\ builder = GraphBuilderInit
    /\ last = Idle

NextCascade ==
    \/ \E interactions \in FunnelSnapshots, use_svd \in BOOLEAN,
          seed \in CoordinatorSeeds, svd_fails \in BOOLEAN :
          TrainCollaborative(interactions, use_svd, seed, svd_fails)
    \/ \E interactions \in FunnelSnapshots, seed \in CoordinatorSeeds :
          TrainGnn(interactions, seed)
    \/ \E user_id \in RequestUsers, top_k \in 1..MaxTopK, candidates \in FunnelLists :
          RecommendMentorsCall(user_id, [streak |-> None], candidates, top_k, FALSE)
    \/ Respond

SpecCascade == InitCascade /\ [][NextCascade]_vars

----------------------------------------------------------------------------
(* The coordinator asked about candidates at and over their capacity *)

\* the candidate universes at capacity: session 2 has more participants
\* than its maximum and nothing in common with the user, group 2 has as
\* many members as settings.maxMembers allows
CapacityCatalogue(kind, ids) ==
    CASE kind = "mentor" -> [id \in ids |-> Mentor(id, Rat(id % 3, 2))]
      [] kind = "session" ->
            [id \in ids |-> Session(id, Rat((id + 1) % 3, 2), id * 15, 20)]
      [] kind = "group" -> [id \in ids |-> Group(id, TRUE, id * 25, 50)]

\* the candidate lists of a kind: the candidates of distinct ids among ids
CapacityLists(kind, ids) ==
    {[i \in 1..Len(q) |-> CapacityCatalogue(kind, ids)[q[i]]] :
        q \in DistinctSeqs(ids, MaxCandidates)}

InitCapacity ==
    /\ ensemble_method \in Methods
    /\ weights = DefaultWeights
    /\ models_ready = ModelsReadyInit
    /\ cf = CFInit
    /\ gnn = GNNInit
    /\ builder = GraphBuilderInit
    /\ last = Idle

NextCapacity ==
    \/ \E interactions \in CoordinatorSnapshots, use_svd \in BOOLEAN,
          seed \in CoordinatorSeeds, svd_fails \in BOOLEAN :
          TrainCollaborative(interactions, use_svd, seed, svd_fails)
    \/ \E interactions \in CoordinatorSnapshots, seed \in CoordinatorSeeds :
          TrainGnn(interactions, seed)
    \/ \E user_id \in RequestUsers, user_data \in RequestProfiles, top_k \in 1..MaxTopK :
          \/ \E candidates \in CapacityLists("mentor", CandidateIdsDrawn) :
                RecommendMentorsCall(user_id, user_data, candidates, top_k, FALSE)
          \/ \E candidates \in CapacityLists("session", CandidateIdsDrawn) :
                RecommendSessionsCall(user_id, user_data, candidates, top_k, FALSE)
          \/ \E candidates \in CapacityLists("group", CandidateIdsDrawn) :
                RecommendGroupsCall(user_id, user_data, candidates, top_k, FALSE)
    \/ Respond

SpecCapacity == InitCapacity /\ [][NextCapacity]_vars

----------------------------------------------------------------------------
(* A CollaborativeFilter on its own: train and predict *)

InitCF ==
    /\ ensemble_method = "weighted"
    /\ weights = DefaultWeights
    /\ models_ready = ModelsReadyInit
    /\ cf = CFInit
    /\ gnn = GNNInit
    /\ builder = GraphBuilderInit
    /\ last = Idle

\* CollaborativeFilter.train(interactions, use_svd)
CFTrainCall(interactions, use_svd, seed, svd_fails) ==
    /\ last = Idle
    /\ svd_fails => use_svd
    /\ cf' = CFTrain(cf, interactions, use_svd, seed, svd_fails)
    /\ last' = [op |-> "train", interactions |-> interactions, raised |-> FALSE]
    /\ UNCHANGED <<ensemble_method, weights, models_ready, gnn, builder>>

\* CollaborativeFilter.predict(user_id, item_ids)
CFPredictCall(user_id, item_ids) ==
    /\ last = Idle
    /\ last' = [op |-> "predict", user_id |-> user_id, item_ids |-> item_ids,
                result |-> CFPredict(cf, user_id, item_ids)]
    /\ UNCHANGED <<ensemble_method, weights, models_ready, cf, gnn, builder>>

\* CollaborativeFilter.recommend_items(user_id, item_candidates, top_k)
CFRecommendItemsCall(user_id, item_candidates, top_k) ==
    /\ last = Idle
    /\ last' = [op |-> "recommend_items", user_id |-> user_id,
                item_candidates |-> item_candidates, top_k |-> top_k,
                result |-> CFRecommendItems(cf, user_id, item_candidates, top_k)]
    /\ UNCHANGED <<ensemble_method, weights, models_ready, cf, gnn, builder>>

\* the values of np.argsort(similarities)[::-1] in a get_similar_items call
SortedIndices(self, item_id) ==
    IF ~self.is_trained \/ item_id \notin DOMAIN self.item_id_map
       \/ IsNone(self.item_factors)
    THEN {<<>>}
    ELSE ArgSortDescending(Similarities(self, item_id))

\* CollaborativeFilter.get_similar_items(item_id, top_k)
CFGetSimilarItemsCall(item_id, top_k) ==
    /\ last = Idle
    /\ \E sorted_indices \in SortedIndices(cf, item_id) :
          last' = [op |-> "get_similar_items", item_id |-> item_id, top_k |-> top_k,
                   result |-> CFGetSimilarItems(cf, item_id, top_k, sorted_indices)]
    /\ UNCHANGED <<ensemble_method, weights, models_ready, cf, gnn, builder>>

NextCF ==
    \/ \E interactions \in InteractionLists, use_svd \in BOOLEAN, seed \in Seeds,
          svd_fails \in BOOLEAN :
          CFTrainCall(interactions, use_svd, seed, svd_fails)
    \/ \E user_id \in QueryUsers, item_ids \in SeqsUpTo(QueryItems, MaxPredict) :
          CFPredictCall(user_id, item_ids)
    \/ \E user_id \in QueryUsers, item_candidates \in SeqsUpTo(QueryItems, MaxPredict),
          top_k \in 1..MaxTopK :
          CFRecommendItemsCall(user_id, item_candidates, top_k)
    \/ \E item_id \in QueryItems, top_k \in 1..MaxTopK :
          CFGetSimilarItemsCall(item_id, top_k)
    \/ Respond

SpecCF == InitCF /\ [][NextCF]_vars

----------------------------------------------------------------------------
(* A CollaborativeFilter trained on records of every interaction type *)

\* the records of the training lists: without type and weight, of each type
\* the weight table knows, of a type it does not know ('share'), and with a
\* weight of their own; three of them are of the same user and item
MatrixRecords ==
    <<[user_id |-> 1, item_id |-> 1],
      [user_id |-> 1, item_id |-> 1, interaction_type |-> "view"],
      [user_id |-> 1, item_id |-> 1, interaction_type |-> "join"],
      [user_id |-> 1, item_id |-> 2, interaction_type |-> "complete", weight |-> 2],
      [user_id |-> 2, item_id |-> 1, interaction_type |-> "rate_positive"],
      [user_id |-> 2, item_id |-> 2, interaction_type |-> "bookmark", weight |-> 2],
      [user_id |-> 2, item_id |-> 2, interaction_type |-> "share"],
      [user_id |-> 2, item_id |-> 1, interaction_type |-> "bookmark"]>>

\* the training lists: up to MaxInteractions records.  The matrix does not
\* depend on the order of the records, so each collection is drawn in the
\* order of MatrixRecords.
MatrixLists ==
    {[i \in 1..Len(q) |-> MatrixRecords[q[i]]] :
        q \in {t \in SeqsUpTo(1..Len(MatrixRecords), MaxInteractions) :
                  \A i \in 1..(Len(t) - 1) : t[i] <= t[i + 1]}}

InitMatrix ==
    /\ ensemble_method = "weighted"
    /\ weights = DefaultWeights
    /\ models_ready = ModelsReadyInit
    /\ cf = CFInit
    /\ gnn = GNNInit
    /\ builder = GraphBuilderInit
    /\ last = Idle

NextMatrix ==
    \/ \E interactions \in MatrixLists, use_svd \in BOOLEAN,
          seed \in CoordinatorSeeds, svd_fails \in BOOLEAN :
          CFTrainCall(interactions, use_svd, seed, svd_fails)
    \/ \E user_id \in QueryUsers, item_id \in QueryItems :
          CFPredictCall(user_id, <<item_id>>)
    \/ Respond

SpecMatrix == InitMatrix /\ [][NextMatrix]_vars

----------------------------------------------------------------------------
(* A GNNRecommender on its own: build_graph, train and recommend_items *)

\* the interaction lists a recommender is built and trained on: those of the
\* coordinator, and one user with two items
ModelSnapshots ==
    CoordinatorSnapshots \cup
    {<<[user_id |-> 1, item_id |-> 1, interaction_type |-> "view", weight |-> 1],
       [user_id |-> 1, item_id |-> 2, interaction_type |-> "view", weight |-> 1]>>}

InitGNN ==
    /\ ensemble_method = "weighted"
    /\ weights = DefaultWeights
    /\ models_ready = ModelsReadyInit
    /\ cf = CFInit
    /\ gnn = GNNInit
    /\ builder = GraphBuilderInit
    /\ last = Idle

\* GNNRecommender.build_graph(interactions)
GNNBuildGraphCall(interactions, seed) ==
    /\ last = Idle
    /\ gnn' = GNNBuildGraph(gnn, interactions, seed)
    /\ last' = [op |-> "build_graph", interactions |-> interactions,
                raised |-> FALSE]
    /\ UNCHANGED <<ensemble_method, weights, models_ready, cf, builder>>

\* GNNRecommender.train(interactions).  interrupted: an interaction that is
\* not in the graph is sampled after the first optimizer step.
GNNTrainCall(interactions, seed, interrupted) ==
    /\ last = Idle
    /\ interrupted => GNNTrainMayRaise(gnn, interactions)
                       /\ ~GNNTrainRaises(gnn, interactions)
    /\ gnn' = IF interrupted THEN GNNTrainInterrupted(gnn, seed)
               ELSE GNNTrain(gnn, interactions, seed)
    /\ last' = [op |-> "train", interactions |-> interactions,
                raised |-> interrupted \/ GNNTrainRaises(gnn, interactions)]
    /\ UNCHANGED <<ensemble_method, weights, models_ready, cf, builder>>

\* GNNRecommender.recommend_items(user_id, item_candidates, top_k)
GNNRecommendItemsCall(user_id, item_candidates, top_k) ==
    /\ last = Idle
    /\ last' = [op |-> "recommend_items", user_id |-> user_id,
                item_candidates |-> item_candidates, top_k |-> top_k,
                result |-> GNNRecommendItems(gnn, user_id, item_candidates, top_k)]
    /\ UNCHANGED <<ensemble_method, weights, models_ready, cf, gnn, builder>>

NextGNN ==
    \/ \E interactions \in ModelSnapshots, seed \in Seeds :
          GNNBuildGraphCall(interactions, seed)
    \/ \E interactions \in ModelSnapshots, seed \in Seeds, interrupted \in BOOLEAN :
          GNNTrainCall(interactions, seed, interrupted)
    \/ \E user_id \in QueryUsers, item_candidates \in SeqsUpTo(QueryItems, MaxPredict),
          top_k \in 1..MaxTopK :
          GNNRecommendItemsCall(user_id, item_candidates, top_k)
    \/ Respond

SpecGNN == InitGNN /\ [][NextGNN]_vars

----------------------------------------------------------------------------
(* A GNNRecommender built on lists with repeated (user, item) pairs:       *)
(* build_graph reads the user_id and the item_id of each record            *)

InitEdges ==
    /\ ensemble_method = "weighted"
    /\ weights = DefaultWeights
    /\ models_ready = ModelsReadyInit
    /\ cf = CFInit
    /\ gnn = GNNInit
    /\ builder = GraphBuilderInit
    /\ last = Idle

NextEdges ==
    \/ \E interactions \in MatrixLists, seed \in CoordinatorSeeds :
          GNNBuildGraphCall(interactions, seed)
    \/ \E interactions \in MatrixLists, seed \in CoordinatorSeeds :
          GNNTrainCall(interactions, seed, FALSE)
    \/ Respond

SpecEdges == InitEdges /\ [][NextEdges]_vars

----------------------------------------------------------------------------
(* A CollaborativeFilter and a GNNRecommender side by side, each trained   *)
(* by its own sequence of calls and asked about one item at a time         *)

InitModels ==
    /\ ensemble_method = "weighted"
    /\ weights = DefaultWeights
    /\ models_ready = ModelsReadyInit
    /\ cf = CFInit
    /\ gnn = GNNInit
    /\ builder = GraphBuilderInit
    /\ last = Idle

NextModels ==
    \/ \E interactions \in ModelSnapshots, use_svd \in BOOLEAN,
          seed \in CoordinatorSeeds, svd_fails \in BOOLEAN :
          CFTrainCall(interactions, use_svd, seed, svd_fails)
    \/ \E user_id \in QueryUsers, item_id \in QueryItems :
          CFPredictCall(user_id, <<item_id>>)
    \/ \E interactions \in ModelSnapshots, seed \in Seeds :
          GNNBuildGraphCall(interactions, seed)
    \/ \E interactions \in ModelSnapshots, seed \in Seeds, interrupted \in BOOLEAN :
          GNNTrainCall(interactions, seed, interrupted)
    \/ \E user_id \in QueryUsers, item_id \in QueryItems :
          GNNRecommendItemsCall(user_id, <<item_id>>, 1)
    \/ Respond

SpecModels == InitModels /\ [][NextModels]_vars

----------------------------------------------------------------------------
(* A GraphBuilder on its own: the add_*_edges calls of build_graph_from_db *)

\* the user at each position of a participant or member list
UserNames == <<"u1", "u2", "u3", "u4", "u5">>

\* the status of a participant: the three that count, cancelled, one that
\* the builder does not know, and a participant without the key
ParticipantStatuses ==
    {Some("completed"), Some("attended"), Some("registered"),
     Some("cancelled"), Some("waitlisted"), None}

\* the participant lists of a session document
ParticipantLists ==
    UNION {{[i \in 1..n |-> [userId |-> Some(UserNames[i]), status |-> st[i]]] :
               st \in [1..n -> ParticipantStatuses]} : n \in 0..MaxParticipants}

\* StudySession documents of one id: with and without organizer, with and
\* without the key 'participants'
StudySessions(session_id) ==
    [_id : {Some(session_id)},
     organizer : {None, Some("u1")},
     participants : {None} \cup {Some(q) : q \in ParticipantLists}]

\* the documents a second session of a list is drawn from
SecondSessions ==
    {[_id |-> Some("s2"), organizer |-> Some("u2"),
      participants |-> Some(<<[userId |-> Some("u2"), status |-> Some("completed")]>>)],
     [_id |-> Some("s2"), organizer |-> None, participants |-> None]}

\* the study_sessions arguments: no session, one session, and a session of
\* at most one participant followed by a second session
StudySessionLists ==
    {<<>>} \cup {<<d>> : d \in StudySessions("s1")}
    \cup {<<d, e>> : d \in {x \in StudySessions("s1") :
                                Len(GetOr(x.participants, <<>>)) <= 1},
                     e \in SecondSessions}

\* Group documents of one id, with each number of members
GroupDocuments(group_id) ==
    [_id : {Some(group_id)},
     members : {None} \cup {Some([i \in 1..n |-> [userId |-> Some(UserNames[i])]]) :
                               n \in 0..MaxMembers}]

\* the groups arguments: no group, one group, a group followed by a second
\* one of two members, and a group with a member document without 'userId'
GroupLists ==
    {<<>>} \cup {<<d>> : d \in GroupDocuments("g1")}
    \cup {<<d, [_id |-> Some("g2"),
                members |-> Some(<<[userId |-> Some("u2")], [userId |-> Some("u3")]>>)]>> :
              d \in GroupDocuments("g1")}
    \cup {<<[_id |-> Some("g1"),
              members |-> Some(<<[userId |-> Some("u1")], [userId |-> None]>>)]>>}

\* the mentorship_requests arguments: none, a request in each status, and
\* an accepted request without 'mentorId'
MentorshipRequestLists ==
    {<<>>} \cup {<<[learnerId |-> Some("u1"), mentorId |-> Some("m1"), status |-> st]>> :
                    st \in {Some("accepted"), Some("pending")}}
    \cup {<<[learnerId |-> Some("u1"), mentorId |-> None, status |-> Some("accepted")]>>}

\* the keys of self.nodes
NodeTypes == {"users", "mentors", "sessions", "groups"}

\* the number of nodes and edges of a builder
GraphSize(self) ==
    Cardinality(self.nodes.users) + Cardinality(self.nodes.mentors)
      + Cardinality(self.nodes.sessions) + Cardinality(self.nodes.groups)
      + Len(self.edges)

InitGraph ==
    /\ ensemble_method = "weighted"
    /\ weights = DefaultWeights
    /\ models_ready = ModelsReadyInit
    /\ cf = CFInit
    /\ gnn = GNNInit
    /\ builder = GraphBuilderInit
    /\ last = Idle

\* what a call on the builder leaves: the builder, and the record of the call
Built(op, documents, after) ==
    /\ GraphSize(builder) <= MaxGraph
    /\ builder' = after
    /\ last' = [op |-> op, documents |-> documents, before |-> builder]
    /\ UNCHANGED <<ensemble_method, weights, models_ready, cf, gnn>>

\* builder.add_user_mentor_edges(requests)
AddUserMentorEdgesCall(mentorship_requests) ==
    /\ last = Idle
    /\ Built("add_user_mentor_edges", mentorship_requests,
             AddUserMentorEdges(builder, mentorship_requests))

\* builder.add_user_session_edges(sessions)
AddUserSessionEdgesCall(study_sessions) ==
    /\ last = Idle
    /\ Built("add_user_session_edges", study_sessions,
             AddUserSessionEdges(builder, study_sessions))

\* builder.add_session_organizer_edges(sessions)
AddSessionOrganizerEdgesCall(study_sessions) ==
    /\ last = Idle
    /\ Built("add_session_organizer_edges", study_sessions,
             AddSessionOrganizerEdges(builder, study_sessions))

\* builder.add_user_group_edges(groups)
AddUserGroupEdgesCall(groups) ==
    /\ last = Idle
    /\ Built("add_user_group_edges", groups, AddUserGroupEdges(builder, groups))

\* builder.get_bipartite_graph(node_type_1, node_type_2)
GetBipartiteGraphCall(node_type_1, node_type_2) ==
    /\ last = Idle
    /\ last' = [op |-> "get_bipartite_graph", node_type_1 |-> node_type_1,
                node_type_2 |-> node_type_2,
                result |-> GetBipartiteGraph(builder, node_type_1, node_type_2)]
    /\ UNCHANGED <<ensemble_method, weights, models_ready, cf, gnn, builder>>

NextGraph ==
    \/ \E mentorship_requests \in MentorshipRequestLists :
          AddUserMentorEdgesCall(mentorship_requests)
    \/ \E study_sessions \in StudySessionLists :
          AddUserSessionEdgesCall(study_sessions)
    \/ \E study_sessions \in StudySessionLists :
          AddSessionOrganizerEdgesCall(study_sessions)
    \/ \E groups \in GroupLists : AddUserGroupEdgesCall(groups)
    \/ \E node_type_1 \in NodeTypes, node_type_2 \in NodeTypes :
          GetBipartiteGraphCall(node_type_1, node_type_2)
    \/ Respond

SpecGraph == InitGraph /\ [][NextGraph]_vars

----------------------------------------------------------------------------
(* The fusion functions of the coordinator, applied to drawn inputs *)

\* the weights a coordinator can hold: the defaults and two set_weights results
WeightChoices == {DefaultWeights, SetWeights(1, 1, 0), SetWeights(1, 2, 5)}

\* the readiness flags a coordinator can hold: content is always ready
ReadyChoices ==
    {[content |-> TRUE, collaborative |-> c, gnn |-> g] : c \in BOOLEAN, g \in BOOLEAN}

\* raw scores of a model
ScoreValues == {Rat(-1, 1), RZero, RHalf, Rat(3, 1)}
\* normalized scores of a model
NormValues == {RZero, RHalf, ROne}

\* the lists of at most MaxScores (id, score) pairs with distinct ids
ScoreLists ==
    UNION {{[i \in 1..Len(q) |-> [id |-> q[i], score |-> v[i]]] :
               v \in [1..Len(q) -> ScoreValues]} :
           q \in DistinctSeqs(1..MaxScores, MaxScores)}

\* the dicts {id: normalized score} over the ids 1 and 2
ScoreMaps == UNION {[D -> NormValues] : D \in SUBSET {1, 2}}

InitFusion ==
    /\ ensemble_method = "weighted"
    /\ weights \in WeightChoices
    /\ models_ready \in ReadyChoices
    /\ cf = CFInit
    /\ gnn = GNNInit
    /\ builder = GraphBuilderInit
    /\ last = Idle

\* _normalize_scores(scores)
NormalizeCall(scores) ==
    /\ last = Idle
    /\ last' = [op |-> "_normalize_scores", scores |-> scores,
                result |-> NormalizeScores(scores)]
    /\ UNCHANGED <<ensemble_method, weights, models_ready, cf, gnn, builder>>

\* _weighted_ensemble(content_scores, cf_scores, gnn_scores)
WeightedCall(content_scores, cf_scores, gnn_scores) ==
    /\ last = Idle
    /\ last' = [op |-> "_weighted_ensemble",
                scores |-> [content |-> content_scores, collaborative |-> cf_scores,
                            gnn |-> gnn_scores],
                result |-> WeightedEnsemble(Self, content_scores, cf_scores, gnn_scores)]
    /\ UNCHANGED <<ensemble_method, weights, models_ready, cf, gnn, builder>>

\* _context_aware_routing(user_id, user_data, recommendation_type)
RoutingCall(user_data, recommendation_type) ==
    /\ last = Idle
    /\ last' = [op |-> "_context_aware_routing", user_data |-> user_data,
                recommendation_type |-> recommendation_type,
                result |-> ContextAwareRouting(user_data, recommendation_type)]
    /\ UNCHANGED <<ensemble_method, weights, models_ready, cf, gnn, builder>>

NextFusion ==
    \/ \E scores \in ScoreLists : NormalizeCall(scores)
    \/ \E content_scores \in ScoreMaps, cf_scores \in ScoreMaps, gnn_scores \in ScoreMaps :
          WeightedCall(content_scores, cf_scores, gnn_scores)
    \/ \E user_data \in UserProfiles, recommendation_type \in Kinds :
          RoutingCall(user_data, recommendation_type)
    \/ Respond

SpecFusion == InitFusion /\ [][NextFusion]_vars

----------------------------------------------------------------------------
(* Properties of the fusion functions, checked under SpecFusion *)

ModelNames == {"content", "collaborative", "gnn"}

\* C1: _normalize_scores on a list of (id, score) pairs with distinct ids
\* returns a map with one value per id, every value in [0, 1]; the largest
\* input score maps to 1 and the smallest to 0, unless all input scores are
\* equal, and then every id maps to 0.5; the empty list gives the empty map.
NormalizeRange ==
    last.op = "_normalize_scores" =>
        LET in == last.scores
            out == last.result
            Largest(i) == \A j \in 1..Len(in) : RLe(in[j].score, in[i].score)
            Smallest(i) == \A j \in 1..Len(in) : RLe(in[i].score, in[j].score)
            AllEqual == \A i, j \in 1..Len(in) : in[i].score = in[j].score
        IN  /\ DOMAIN out = {in[i].id : i \in 1..Len(in)}
            /\ \A id \in DOMAIN out : RLe(RZero, out[id]) /\ RLe(out[id], ROne)
            /\ AllEqual => \A id \in DOMAIN out : out[id] = RHalf
            /\ ~AllEqual =>
                  \A i \in 1..Len(in) :
                      /\ Largest(i) => out[in[i].id] = ROne
                      /\ Smallest(i) => out[in[i].id] = RZero

\* a list of three different scores was normalized, one of them negative
NormalizeRangeSeen ==
    /\ last.op = "_normalize_scores"
    /\ Len(last.scores) = 3
    /\ \A i, j \in 1..3 : i # j => last.scores[i].score # last.scores[j].score
    /\ \E i \in 1..3 : RLt(last.scores[i].score, RZero)
    /\ \E id \in DOMAIN last.result :
          RLt(RZero, last.result[id]) /\ RLt(last.result[id], ROne)

\* a list of two equal scores was normalized
NormalizeEqualSeen ==
    /\ last.op = "_normalize_scores"
    /\ Len(last.scores) = 2
    /\ last.scores[1].score = last.scores[2].score

\* C2: _weighted_ensemble returns one entry for every id of the union of its
\* three maps; the final score of an id is sum(w[m] * s[m]) / sum(w[m]) over
\* the ready models m whose map holds the id; an id scored by one ready model
\* of positive weight keeps that model's score; a model that is not ready
\* contributes nothing.
WeightedAverage ==
    last.op = "_weighted_ensemble" =>
        LET in == last.scores
            out == last.result
            Applied(id) == {m \in ModelNames : models_ready[m] /\ id \in DOMAIN in[m]}
            Num(id) == RSum([m \in Applied(id) |-> RMul(weights[m], in[m][id])],
                            Applied(id))
            Den(id) == RSum([m \in Applied(id) |-> weights[m]], Applied(id))
        IN  /\ DOMAIN out = UNION {DOMAIN in[m] : m \in ModelNames}
            /\ \A id \in DOMAIN out :
                  /\ RLt(RZero, Den(id)) => out[id] = RDiv(Num(id), Den(id))
                  /\ \A m \in ModelNames :
                        Applied(id) = {m} /\ RLt(RZero, weights[m]) => out[id] = in[m][id]

\* an id was fused from two ready models that disagree on it while the
\* third model, not ready, scored it too
WeightedAverageSeen ==
    /\ last.op = "_weighted_ensemble"
    /\ models_ready.collaborative /\ ~models_ready.gnn
    /\ weights = DefaultWeights
    /\ \E id \in DOMAIN last.result :
          /\ id \in DOMAIN last.scores.content
          /\ id \in DOMAIN last.scores.collaborative
          /\ id \in DOMAIN last.scores.gnn
          /\ last.scores.content[id] = ROne
          /\ last.scores.collaborative[id] = RZero
          /\ last.scores.gnn[id] = ROne
          /\ last.result[id] = Rat(3, 7)

\* an id was scored by the content model alone
WeightedSingleSeen ==
    /\ last.op = "_weighted_ensemble"
    /\ \E id \in DOMAIN last.result :
          /\ id \in DOMAIN last.scores.content
          /\ id \notin DOMAIN last.scores.collaborative
          /\ id \notin DOMAIN last.scores.gnn
          /\ last.result[id] = RHalf

\* the triple (content, collaborative, gnn) in hundredths that the streak
\* selects
BaseHundredths(streak) ==
    IF streak < 5 THEN <<70, 20, 10>>
    ELSE IF streak > 30 THEN <<20, 40, 40>>
    ELSE <<30, 40, 30>>

\* the shift in hundredths that the recommendation type adds to the triple
ShiftHundredths(recommendation_type) ==
    IF recommendation_type = "mentor" THEN <<10, 0, -10>>
    ELSE IF recommendation_type = "group" THEN <<-15, 0, 15>>
    ELSE <<0, 0, 0>>

\* C5: _context_aware_routing starts from 0.7/0.2/0.1 for a streak below 5,
\* from 0.2/0.4/0.4 for a streak above 30 and from 0.3/0.4/0.3 otherwise (a
\* missing streak counts as 0); "mentor" moves 0.1 from gnn to content,
\* "group" moves 0.15 from content to gnn, "session" moves nothing; the
\* result is the adjusted triple divided by its sum: it sums to 1 and has no
\* negative weight.
RoutingTable ==
    last.op = "_context_aware_routing" =>
        LET streak == IF last.user_data.streak = None THEN 0
                      ELSE last.user_data.streak[1]
            b == BaseHundredths(streak)
            d == ShiftHundredths(last.recommendation_type)
            a == [k \in 1..3 |-> b[k] + d[k]]
            total == a[1] + a[2] + a[3]
            out == last.result
        IN  /\ out.content = Rat(a[1], total)
            /\ out.collaborative = Rat(a[2], total)
            /\ out.gnn = Rat(a[3], total)
            /\ RAdd(RAdd(out.content, out.collaborative), out.gnn) = ROne
            /\ \A m \in ModelNames : RLe(RZero, out[m])

\* the routing was computed for a streak of exactly 5 and a group request
RoutingTableSeen ==
    /\ last.op = "_context_aware_routing"
    /\ last.user_data.streak = Some(5)
    /\ last.recommendation_type = "group"
    /\ last.result = [content |-> Rat(15, 100), collaborative |-> Rat(40, 100),
                      gnn |-> Rat(45, 100)]

\* the routing was computed for a new user and a mentor request: gnn gets 0
RoutingNewMentorSeen ==
    /\ last.op = "_context_aware_routing"
    /\ last.user_data.streak = None
    /\ last.recommendation_type = "mentor"
    /\ last.result.gnn = RZero

----------------------------------------------------------------------------
(* Properties of CollaborativeFilter.predict, checked under SpecCF *)

\* row u of one table times row i of another, summed over the columns
RowProduct(a, b) == RSum([k \in DOMAIN a |-> RInt(a[k] * b[k])], DOMAIN a)

\* C9: predict on a trained model gives one score per requested item, in
\* request order: global_bias for an unknown user and an unknown item,
\* global_bias + item_bias[i] for an unknown user and a known item i,
\* global_bias + user_bias[u] for a known user u and an unknown item, and
\* global_bias + user_bias[u] + item_bias[i] + user_factors[u] . item_factors[i]
\* for a known user u and a known item i.
ColdStartPolicy ==
    last.op = "predict" /\ cf.is_trained =>
        LET known_user == last.user_id \in DOMAIN cf.user_id_map
            u == cf.user_id_map[last.user_id] + 1
            Expected(item_id) ==
                LET known_item == item_id \in DOMAIN cf.item_id_map
                    i == cf.item_id_map[item_id] + 1
                IN  IF ~known_user /\ ~known_item THEN cf.global_bias
                    ELSE IF ~known_user
                    THEN RAdd(cf.global_bias, cf.item_bias[1][i])
                    ELSE IF ~known_item
                    THEN RAdd(cf.global_bias, cf.user_bias[1][u])
                    ELSE RAdd(RAdd(cf.global_bias, cf.user_bias[1][u]),
                              RAdd(cf.item_bias[1][i],
                                   RowProduct(cf.user_factors[1][u],
                                              cf.item_factors[1][i])))
        IN  /\ Len(last.result) = Len(last.item_ids)
            /\ \A j \in 1..Len(last.item_ids) :
                  last.result[j] = Expected(last.item_ids[j])

\* a trained model scored, for a known user, a known item whose factors
\* count and then an unknown item, and the two scores differ
ColdStartPolicySeen ==
    /\ last.op = "predict" /\ cf.is_trained
    /\ last.user_id \in DOMAIN cf.user_id_map
    /\ Len(last.item_ids) = 2
    /\ last.item_ids[1] \in DOMAIN cf.item_id_map
    /\ last.item_ids[2] \notin DOMAIN cf.item_id_map
    /\ RowProduct(cf.user_factors[1][cf.user_id_map[last.user_id] + 1],
                  cf.item_factors[1][cf.item_id_map[last.item_ids[1]] + 1]) # RZero
    /\ last.result[1] # last.result[2]

\* a trained model scored, for an unknown user, a known item of non-zero
\* bias and an unknown item
ColdStartUnknownUserSeen ==
    /\ last.op = "predict" /\ cf.is_trained
    /\ last.user_id \notin DOMAIN cf.user_id_map
    /\ Len(last.item_ids) = 2
    /\ last.item_ids[1] \in DOMAIN cf.item_id_map
    /\ last.item_ids[2] \notin DOMAIN cf.item_id_map
    /\ last.result[1] # cf.global_bias
    /\ last.result[2] = cf.global_bias

\* C10: predict on a model that never completed a training (train was never
\* called, or only with an empty interaction list) returns the score 0 for
\* each requested item, whatever the user id and the item ids.
UntrainedZeros ==
    last.op = "predict" /\ ~cf.is_trained =>
        /\ Len(last.result) = Len(last.item_ids)
        /\ \A j \in 1..Len(last.item_ids) : last.result[j] = RZero

\* a model that was never trained was asked for two items
UntrainedZerosSeen ==
    /\ last.op = "predict" /\ ~cf.is_trained
    /\ Len(last.item_ids) = 2
    /\ last.result = <<RZero, RZero>>

----------------------------------------------------------------------------
(* Properties of the cascading funnel, checked under SpecCascade *)

\* the candidate ids of the recommend call on record
CallIds == CandidateIds(last.candidates)
\* what stage 1 and stage 2 of the funnel hand on in the call on record; a
\* recommend call leaves the models and their readiness as they are
CallStage1 == CascadeStage1(Self, last.user_id, CallIds, last.top_k)
CallStage2 == CascadeStage2(Self, last.user_id, CallStage1, last.top_k)
CallStage3 ==
    CascadeStage3(last.user_data, CallStage2, last.candidates, last.top_k)

CascadingMentorCall ==
    last.op = "recommend" /\ last.kind = "mentor" /\ ensemble_method = "cascading"

\* C3: with method 'cascading', recommend_mentors returns at most top_k
\* results, every returned id is among the ids stage 1 handed on, and no
\* stage hands on an id that was not in its input.
FunnelNarrows ==
    CascadingMentorCall =>
        /\ Len(last.results) <= last.top_k
        /\ Range(Ids(last.results)) \subseteq Range(CallStage1)
        /\ Range(CallStage1) \subseteq Range(CallIds)
        /\ Range(CallStage2) \subseteq Range(CallStage1)
        /\ Range(Ids(CallStage3)) \subseteq Range(CallStage2)

\* a cascading call cut the candidates in stage 1 and returned top_k mentors
FunnelNarrowsSeen ==
    /\ CascadingMentorCall
    /\ Range(CallStage1) # Range(CallIds)
    /\ Len(last.results) = last.top_k
    /\ Len(last.candidates) > last.top_k

\* C4 as stated: stage 1 hands on at most 5*top_k candidates when the graph
\* model is ready and the full candidate list when it is not; stage 2 hands
\* on at most 2*top_k candidates when the collaborative model is ready.
StageSizesFullList ==
    CascadingMentorCall =>
        /\ models_ready.gnn => Len(CallStage1) <= 5 * last.top_k
        /\ ~models_ready.gnn => CallStage1 = CallIds
        /\ models_ready.collaborative => Len(CallStage2) <= 2 * last.top_k

\* C4: stage 1 hands on at most 5*top_k candidates when the graph model is
\* ready and the first min(len, 3*top_k) candidates, in their order, when it
\* is not; stage 2 hands on at most 2*top_k candidates when the
\* collaborative model is ready.
StageSizes ==
    CascadingMentorCall =>
        /\ models_ready.gnn => Len(CallStage1) <= 5 * last.top_k
        /\ ~models_ready.gnn =>
              /\ Len(CallStage1) = IF Len(CallIds) < 3 * last.top_k
                                   THEN Len(CallIds) ELSE 3 * last.top_k
              /\ \A i \in 1..Len(CallStage1) : CallStage1[i] = CallIds[i]
        /\ models_ready.collaborative => Len(CallStage2) <= 2 * last.top_k

\* the graph model was not ready and there were more than 3*top_k candidates
StageSizesSeen ==
    /\ CascadingMentorCall
    /\ ~models_ready.gnn
    /\ Len(CallIds) > 3 * last.top_k
    /\ Len(CallStage1) = 3 * last.top_k

\* the graph model was ready and cut the candidates to 5*top_k, and the
\* collaborative model cut them to 2*top_k
StageCutsSeen ==
    /\ CascadingMentorCall
    /\ models_ready.gnn /\ models_ready.collaborative
    /\ Len(CallIds) > 5 * last.top_k
    /\ Len(CallStage1) = 5 * last.top_k
    /\ Len(CallStage2) = 2 * last.top_k

----------------------------------------------------------------------------
(* Properties of the coordinator's recommend calls, checked under Spec *)

ContextAwareCall == last.op = "recommend" /\ ensemble_method = "context_aware"

\* C6: with method 'context_aware', a recommend call that returns leaves
\* self.weights equal to what it was before the call, so that any sequence
\* of calls that return leaves it as it was before the first: the context
\* weights serve that one fusion only.
WeightsKept ==
    ContextAwareCall /\ ~last.raised => weights = last.weights_before

\* a context-aware call returned results fused under context weights that
\* differ from self.weights
WeightsKeptSeen ==
    /\ ContextAwareCall /\ ~last.raised
    /\ last.results # <<>>
    /\ ContextAwareRouting(last.user_data, last.kind) # weights

\* C7: the weight override of context-aware fusion is scoped: in every state
\* in which a context-aware recommend call has ended, normally or with an
\* error, self.weights equals the weights held before the call.
WeightsScoped ==
    ContextAwareCall => weights = last.weights_before

\* a context-aware call ended with an error raised by the fusion
FusionRaisedSeen ==
    /\ ContextAwareCall /\ last.raised
    /\ weights = ContextAwareRouting(last.user_data, last.kind)

\* C8: a recommend call with an empty candidate list returns an empty list,
\* does not raise, and changes nothing of the coordinator or its models,
\* whatever the method and the readiness flags.
EmptyCandidates ==
    [][last'.op = "recommend" /\ last'.candidates = <<>> =>
          /\ last'.results = <<>>
          /\ ~last'.raised
          /\ UNCHANGED <<ensemble_method, weights, models_ready, cf, gnn>>]_vars

\* sessions were asked for with no candidate while both trained models
\* were ready
EmptyCandidatesSeen ==
    /\ last.op = "recommend" /\ last.kind = "session"
    /\ last.candidates = <<>>
    /\ models_ready.collaborative /\ models_ready.gnn
    /\ last.results = <<>>

----------------------------------------------------------------------------
(* Properties of the readiness flags and of training, checked under Spec *)

\* what get_model_status reports agrees with the models
StatusAgrees(status, collaborative, graph) ==
    /\ status.content
    /\ status.collaborative = collaborative.is_trained
    /\ status.gnn = graph.is_trained

\* C20: after any sequence of train_collaborative, train_gnn and recommend
\* calls, get_model_status reports content as true, collaborative as true
\* exactly when the collaborative model's training has completed and gnn as
\* true exactly when the graph model's training has completed; a flag that
\* is true stays true, and a recommend call changes no flag.
ReadinessFlags ==
    /\ StatusAgrees(GetModelStatus(Self), cf, gnn)
    /\ [][/\ StatusAgrees(GetModelStatus(Self)', cf', gnn')
          /\ \A m \in ModelNames : models_ready[m] => models_ready'[m]
          /\ last'.op = "recommend" => models_ready' = models_ready]_vars

\* a recommend call returned while the collaborative model was ready and the
\* graph model was not
ReadinessFlagsSeen ==
    /\ last.op = "recommend" /\ ~last.raised
    /\ GetModelStatus(Self).collaborative /\ cf.is_trained
    /\ ~GetModelStatus(Self).gnn

\* both flags were true when a training call with an empty list ended
ReadinessKeptSeen ==
    /\ last.op \in {"train_collaborative", "train_gnn"}
    /\ last.interactions = <<>>
    /\ GetModelStatus(Self).collaborative /\ GetModelStatus(Self).gnn

\* C13: training never raises for want of data: train_collaborative and
\* train_gnn called with an empty interaction list, or with a list that has
\* a single user or a single item, return normally in any prior state of
\* the coordinator.
TrainingReturns ==
    last.op \in {"train_collaborative", "train_gnn"} => ~last.raised

\* train_gnn was called with an empty list on a coordinator whose graph
\* model had been built before, and raised
TrainingRaisedSeen ==
    /\ last.op = "train_gnn" /\ last.interactions = <<>>
    /\ last.raised
    /\ ~IsNone(gnn.model) /\ gnn.user_id_map = EmptyMap

----------------------------------------------------------------------------
(* Properties of the rankings of a CollaborativeFilter, checked under SpecCF *)

\* the number of candidates that go before position p in a ranking by
\* descending score with equal scores in input order
RankOf(scores, p) ==
    Cardinality({q \in 1..Len(scores) :
                    \/ RLt(scores[p], scores[q])
                    \/ scores[q] = scores[p] /\ q < p})

\* C15: recommend_items returns the candidates in non-increasing order of
\* predicted score, candidates of equal score in their input order, with
\* min(top_k, number of candidates) entries: the candidate that r others go
\* before is entry r of the result when r < top_k; the result is empty for
\* an empty candidate list.
RankedStable ==
    last.op = "recommend_items" =>
        LET scores == CFPredict(cf, last.user_id, last.item_candidates)
        IN  /\ Len(last.result) = Min2(last.top_k, Len(last.item_candidates))
            /\ \A j \in 1..(Len(last.result) - 1) :
                   RLe(last.result[j + 1].score, last.result[j].score)
            /\ \A p \in 1..Len(last.item_candidates) :
                   RankOf(scores, p) < last.top_k =>
                       last.result[RankOf(scores, p) + 1]
                           = [id |-> last.item_candidates[p], score |-> scores[p]]

\* a trained filter ranked two different candidates of equal score
RankedStableSeen ==
    /\ last.op = "recommend_items" /\ cf.is_trained
    /\ Len(last.result) = 2
    /\ last.result[1].id # last.result[2].id
    /\ last.result[1].score = last.result[2].score

\* a trained filter put the second candidate first and cut the list at top_k
RankedCutSeen ==
    /\ last.op = "recommend_items" /\ cf.is_trained
    /\ Len(last.item_candidates) = 2 /\ last.top_k = 1
    /\ last.result = <<[id |-> last.item_candidates[2],
                        score |-> CFPredict(cf, last.user_id, last.item_candidates)[2]]>>
    /\ last.item_candidates[1] # last.item_candidates[2]

\* the known items other than the query of a get_similar_items call
OtherItems == DOMAIN cf.item_id_map \ {last.item_id}

\* C14: get_similar_items never has the query item in its result, whatever
\* the trained factor table, and returns the top_k other known items (all of
\* them when there are fewer) in descending order of dot-product similarity.
SimilarExcludesQuery ==
    last.op = "get_similar_items" /\ cf.is_trained
    /\ last.item_id \in DOMAIN cf.item_id_map =>
        LET similarities == Similarities(cf, last.item_id)
            sim(id) == similarities[cf.item_id_map[id] + 1]
            returned == Range(Ids(last.result))
        IN  /\ last.item_id \notin returned
            /\ Len(last.result) = Min2(last.top_k, Cardinality(OtherItems))
            /\ Cardinality(returned) = Len(last.result)
            /\ \A j \in 1..Len(last.result) :
                   /\ last.result[j].id \in OtherItems
                   /\ last.result[j].score = sim(last.result[j].id)
            /\ \A j \in 1..(Len(last.result) - 1) :
                   RLe(last.result[j + 1].score, last.result[j].score)
            /\ \A id \in OtherItems \ returned :
                   \A j \in 1..Len(last.result) : RLe(sim(id), last.result[j].score)

\* get_similar_items returned the query item, another item's dot product
\* with the query being larger than the query's with itself
SimilarQueryReturnedSeen ==
    /\ last.op = "get_similar_items" /\ cf.is_trained
    /\ last.item_id \in DOMAIN cf.item_id_map
    /\ last.item_id \in Range(Ids(last.result))
    /\ \E id \in OtherItems :
          RLt(Similarities(cf, last.item_id)[cf.item_id_map[last.item_id] + 1],
              Similarities(cf, last.item_id)[cf.item_id_map[id] + 1])

----------------------------------------------------------------------------
(* Properties of a GNNRecommender, checked under SpecGNN *)

\* the state Trained: train has run to its end on the model that the most
\* recent build_graph constructed
Trained(self) == ~IsNone(self.model) /\ Val(self.model).fitted

\* C12: recommend_items returns scores only in the state Trained, that is
\* when train has completed after the most recent build_graph; after a
\* build_graph on a trained recommender (fresh embedding tables), as before
\* any training, it returns an empty list.
ScoresOnlyTrained ==
    last.op = "recommend_items" /\ last.result # <<>> => Trained(gnn)

\* recommend_items returned scores from a model that build_graph had
\* constructed after the last completed train
UnfittedScoresSeen ==
    /\ last.op = "recommend_items" /\ last.result # <<>>
    /\ gnn.is_trained /\ ~IsNone(gnn.model) /\ ~Val(gnn.model).fitted

\* the candidates of the call that are in the item index, in input order
KnownCandidates == SelectSeq(last.item_candidates, LAMBDA id : id \in DOMAIN gnn.item_id_map)

\* C16: on a trained model recommend_items returns an empty list for a user
\* that is not in the user index; for a known user it scores exactly the
\* candidates that are in the item index, the others being dropped, and
\* returns min(top_k, their number) of them in descending order of score,
\* none left out having a higher score than one returned.
KnownOnlyRanked ==
    last.op = "recommend_items" /\ gnn.is_trained =>
        IF last.user_id \notin DOMAIN gnn.user_id_map THEN last.result = <<>>
        ELSE LET user_idx == gnn.user_id_map[last.user_id]
                 score(id) == Dot(UserEmb(Val(gnn.model))[user_idx + 1],
                                  ItemEmb(Val(gnn.model))[gnn.item_id_map[id] + 1])
                 known == KnownCandidates
                 kept == {p \in 1..Len(known) :
                            \E j \in 1..Len(last.result) : last.result[j].id = known[p]}
             IN  /\ Len(last.result) = Min2(last.top_k, Len(known))
                 /\ \A j \in 1..Len(last.result) :
                        /\ last.result[j].id \in Range(known)
                        /\ last.result[j].score = score(last.result[j].id)
                 /\ \A j \in 1..(Len(last.result) - 1) :
                        RLe(last.result[j + 1].score, last.result[j].score)
                 /\ \A p \in 1..Len(known) : \A j \in 1..Len(last.result) :
                        p \notin kept => RLe(score(known[p]), last.result[j].score)

\* a trained model was asked about a known and an unknown candidate and
\* returned the known one only
KnownOnlyRankedSeen ==
    /\ last.op = "recommend_items" /\ gnn.is_trained
    /\ last.user_id \in DOMAIN gnn.user_id_map
    /\ Len(last.item_candidates) = 2 /\ Len(last.result) = 1 /\ last.top_k = 2
    /\ \E j \in 1..2 : last.item_candidates[j] \notin DOMAIN gnn.item_id_map

\* a trained model ranked the second of two known candidates first
KnownReorderedSeen ==
    /\ last.op = "recommend_items" /\ gnn.is_trained
    /\ Len(last.item_candidates) = 2 /\ Len(last.result) = 2
    /\ last.result[1].id = last.item_candidates[2]
    /\ RLt(last.result[2].score, last.result[1].score)

\* a trained model was asked for a user that is not in the user index
UnknownUserSeen ==
    /\ last.op = "recommend_items" /\ gnn.is_trained
    /\ gnn.user_id_map # EmptyMap
    /\ last.user_id \notin DOMAIN gnn.user_id_map
    /\ last.item_candidates # <<>> /\ last.result = <<>>

----------------------------------------------------------------------------
(* Properties of the id maps of the two models, checked under SpecModels *)

\* every index of id_map is a row of the table (None: there is no table)
RowsCover(id_map, table) ==
    \A id \in DOMAIN id_map :
        ~IsNone(table) /\ id_map[id] + 1 \in DOMAIN Val(table)

\* C11: after any sequence of CollaborativeFilter.train calls (different
\* snapshots, empty lists, the factorization fallback, either mode) every
\* index in user_id_map and item_id_map is a row of the current factor and
\* bias tables, and after any sequence of build_graph and train calls every
\* index in the GNNRecommender's id maps is a row of its current model's
\* embedding tables.
IndexValid ==
    /\ RowsCover(cf.user_id_map, cf.user_factors)
    /\ RowsCover(cf.user_id_map, cf.user_bias)
    /\ RowsCover(cf.item_id_map, cf.item_factors)
    /\ RowsCover(cf.item_id_map, cf.item_bias)
    /\ \A id \in DOMAIN gnn.user_id_map :
          ~IsNone(gnn.model) /\ gnn.user_id_map[id] < Val(gnn.model).num_users
    /\ \A id \in DOMAIN gnn.item_id_map :
          ~IsNone(gnn.model) /\ gnn.item_id_map[id] < Val(gnn.model).num_items

\* the filter was trained and then given an empty list, which emptied its
\* maps under the old tables; the recommender was trained and then rebuilt
\* on a snapshot of two users
IndexValidSeen ==
    /\ cf.is_trained /\ cf.user_id_map = EmptyMap /\ ~IsNone(cf.user_factors)
    /\ gnn.is_trained /\ ~IsNone(gnn.model) /\ ~Val(gnn.model).fitted
    /\ Cardinality(DOMAIN gnn.user_id_map) = 2
    /\ Val(gnn.model).num_users = 2

\* both models hold maps of two users and two items over tables of as many
\* rows, and a prediction was made for one of them
IndexUsedSeen ==
    /\ last.op = "predict" /\ last.user_id = 2 /\ last.item_ids = <<2>>
    /\ cf.is_trained /\ Cardinality(DOMAIN cf.user_id_map) = 2
    /\ Len(Val(cf.user_factors)) = 2 /\ Len(Val(cf.item_bias)) = 2
    /\ Cardinality(DOMAIN gnn.item_id_map) = 2

----------------------------------------------------------------------------
(* Properties of the GraphBuilder, checked under SpecGraph *)

\* the edges the last call appended, and whether it kept those before it
NewEdges == SubSeq(builder.edges, Len(last.before.edges) + 1, Len(builder.edges))
EdgesKept == SubSeq(builder.edges, 1, Len(last.before.edges)) = last.before.edges

\* the positions of the new edges of one type from source to target
EdgesBetween(edge_type, source, target) ==
    {k \in 1..Len(NewEdges) :
        /\ NewEdges[k].edge_type = edge_type
        /\ NewEdges[k].source = source
        /\ NewEdges[k].target = target}

\* the participants of the sessions of the call: <<session, participant>>
\* positions
Attendances ==
    UNION {{<<s, p>> : p \in 1..Len(GetOr(last.documents[s].participants, <<>>))} :
              s \in 1..Len(last.documents)}
AttendanceStatus(a) == Val(last.documents[a[1]].participants)[a[2]].status
AttendanceUser(a) == Val(Val(last.documents[a[1]].participants)[a[2]].userId)
AttendanceSession(a) == Val(last.documents[a[1]]._id)

\* the participant's status is completed, attended or registered, or missing
Counts(a) ==
    AttendanceStatus(a) \in {Some("completed"), Some("attended"), Some("registered"), None}

\* C18: add_user_session_edges appends, for each session, exactly one
\* user->session 'attended' edge per participant whose status is completed,
\* attended or registered (a missing status counts as registered), of
\* weight 1.0 when the status is completed and 0.7 otherwise, and no edge
\* for a participant with status cancelled or any other status; every
\* participant and every session is recorded as a node.
AttendedEdges ==
    last.op = "add_user_session_edges" =>
        /\ EdgesKept
        /\ Len(NewEdges) = Cardinality({a \in Attendances : Counts(a)})
        /\ \A k \in 1..Len(NewEdges) : NewEdges[k].edge_type = "attended"
        /\ \A a \in Attendances :
               LET mine == EdgesBetween("attended", AttendanceUser(a), AttendanceSession(a))
               IN  /\ Cardinality(mine) = IF Counts(a) THEN 1 ELSE 0
                   /\ \A k \in mine :
                          NewEdges[k].weight =
                              IF AttendanceStatus(a) = Some("completed")
                              THEN ROne ELSE Rat(7, 10)
                   /\ AttendanceUser(a) \in builder.nodes.users
        /\ \A s \in 1..Len(last.documents) :
               Val(last.documents[s]._id) \in builder.nodes.sessions

\* a session of a completed and a cancelled participant was added to a
\* builder that held an edge: one edge of weight 1.0 more, both users nodes
AttendedEdgesSeen ==
    /\ last.op = "add_user_session_edges"
    /\ last.before.edges # <<>>
    /\ \E a, b \in Attendances :
          /\ AttendanceStatus(a) = Some("completed")
          /\ AttendanceStatus(b) = Some("cancelled")
          /\ a[1] = b[1]
          /\ {AttendanceUser(a), AttendanceUser(b)} \subseteq builder.nodes.users
    /\ Len(NewEdges) = 1 /\ NewEdges[1].weight = ROne

\* a participant without a status got an edge of weight 0.7
AttendedDefaultSeen ==
    /\ last.op = "add_user_session_edges"
    /\ \E a \in Attendances :
          /\ AttendanceStatus(a) = None
          /\ \E k \in EdgesBetween("attended", AttendanceUser(a), AttendanceSession(a)) :
                NewEdges[k].weight = Rat(7, 10)

\* the sessions of the call that have an organizer
Organized == {s \in 1..Len(last.documents) : ~IsNone(last.documents[s].organizer)}

\* C17: add_session_organizer_edges creates an 'organizes' edge of weight
\* 1.5 for a session exactly when the session has an organizer: a session
\* without an organizer adds no organizer edge and no organizer node.
OrganizerEdges ==
    last.op = "add_session_organizer_edges" =>
        /\ EdgesKept
        /\ Len(NewEdges) = Cardinality(Organized)
        /\ \A s \in Organized :
               LET mine == EdgesBetween("organizes", Val(last.documents[s].organizer),
                                        Val(last.documents[s]._id))
               IN  /\ Cardinality(mine) = 1
                   /\ \A k \in mine : NewEdges[k].weight = Rat(3, 2)
        /\ builder.nodes.users =
               last.before.nodes.users
                 \cup {Val(last.documents[s].organizer) : s \in Organized}

\* a session without organizer was added: the builder holds an edge from
\* the user 'None' to the session, and 'None' is a user node
OrganizerNoneSeen ==
    /\ last.op = "add_session_organizer_edges"
    /\ last.documents # <<>> /\ Organized = {}
    /\ "None" \in builder.nodes.users
    /\ \E k \in 1..Len(NewEdges) :
          /\ NewEdges[k].source = "None"
          /\ NewEdges[k].edge_type = "organizes"
          /\ NewEdges[k].weight = Rat(3, 2)

\* the members of group g of the call
MemberIds(g) ==
    LET members == GetOr(last.documents[g].members, <<>>)
    IN  [m \in 1..Len(members) |-> StrOf(members[m].userId)]

\* n * (n - 1) / 2 summed over the groups of a list
RECURSIVE PairCount(_)
PairCount(groups) ==
    IF groups = <<>> THEN 0
    ELSE LET n == Len(GetOr(groups[1].members, <<>>))
         IN  (n * (n - 1)) \div 2 + PairCount(Tail(groups))

\* C19: add_user_group_edges appends, for a group of n members, exactly n
\* user->group 'member_of' edges of weight 1.0, one per member, and exactly
\* n * (n - 1) / 2 'group_peer' edges of weight 0.5, one per unordered pair
\* of members, and changes no edge that existed before the call.
GroupEdgeCounts ==
    last.op = "add_user_group_edges" =>
        LET peers == {k \in 1..Len(NewEdges) : NewEdges[k].edge_type = "group_peer"}
            between(a, b) == EdgesBetween("group_peer", a, b)
                               \cup EdgesBetween("group_peer", b, a)
        IN  /\ EdgesKept
            /\ \A g \in 1..Len(last.documents) :
                   LET group_id == Val(last.documents[g]._id)
                       ids == MemberIds(g)
                       member_of == {k \in 1..Len(NewEdges) :
                                       /\ NewEdges[k].edge_type = "member_of"
                                       /\ NewEdges[k].target = group_id}
                   IN  /\ Cardinality(member_of) = Len(ids)
                       /\ \A m \in 1..Len(ids) :
                              Cardinality(EdgesBetween("member_of", ids[m], group_id)) = 1
                       /\ \A k \in member_of : NewEdges[k].weight = ROne
            /\ Cardinality(peers) = PairCount(last.documents)
            /\ \A k \in peers : NewEdges[k].weight = RHalf
            /\ \A a \in Range(UserNames), b \in Range(UserNames) :
                   a # b =>
                       Cardinality(between(a, b))
                           = Cardinality({g \in 1..Len(last.documents) :
                                             {a, b} \subseteq Range(MemberIds(g))})
            /\ Len(NewEdges) = Cardinality(peers)
                   + Cardinality({k \in 1..Len(NewEdges) :
                                    NewEdges[k].edge_type = "member_of"})

\* a group of three members was added to a builder that held an edge:
\* three member_of and three group_peer edges more
GroupEdgeCountsSeen ==
    /\ last.op = "add_user_group_edges"
    /\ last.before.edges # <<>>
    /\ Len(last.documents) = 1 /\ Len(MemberIds(1)) = 3
    /\ Len(NewEdges) = 6
    /\ Cardinality({k \in 1..6 : NewEdges[k].edge_type = "group_peer"}) = 3

----------------------------------------------------------------------------
(* Properties of CollaborativeFilter.train, checked under SpecCF *)

\* the id maps and the tables of the filter belong together: each table has
\* one row per id of its map
TablesMatchIndex(self) ==
    /\ Len(Val(self.user_factors)) = Cardinality(DOMAIN self.user_id_map)
    /\ Len(Val(self.user_bias)) = Cardinality(DOMAIN self.user_id_map)
    /\ Len(Val(self.item_factors)) = Cardinality(DOMAIN self.item_id_map)
    /\ Len(Val(self.item_bias)) = Cardinality(DOMAIN self.item_id_map)

\* C24: train replaces the id index and the tables together: whenever a train
\* call has returned, the early return for an empty list after an earlier
\* successful training included, the id maps are those of one snapshot and
\* the factor and bias tables of a trained filter have one row per id of
\* these maps.
TrainedTogether ==
    last.op = "train" /\ cf.is_trained => TablesMatchIndex(cf)

\* a train call on a non-empty list returned: the maps are the list's, and
\* the tables have a row for each of its users and items
TrainedTogetherSeen ==
    /\ last.op = "train" /\ last.interactions # <<>>
    /\ cf.is_trained /\ TablesMatchIndex(cf)
    /\ cf.user_id_map = CreateInteractionMatrix(last.interactions).user_id_map
    /\ Cardinality(DOMAIN cf.user_id_map) = 2

\* a train call on the empty list returned on a trained filter: the id maps
\* are empty, the tables are those of the earlier training
StaleTablesSeen ==
    /\ last.op = "train" /\ last.interactions = <<>>
    /\ cf.is_trained
    /\ cf.user_id_map = EmptyMap /\ cf.item_id_map = EmptyMap
    /\ Len(Val(cf.user_factors)) > 0
    /\ RLt(RZero, cf.global_bias)

----------------------------------------------------------------------------
(* Properties of CollaborativeFilter training, checked under SpecMatrix *)

\* every row of the table has n columns
Columns(table, n) == \A r \in 1..Len(table) : Len(table[r]) = n

\* what a returned SVD-mode train call on a non-empty list leaves
SvdOutcome(self, interactions, svd_fails) ==
    LET matrix == CreateInteractionMatrix(interactions)
        k == Min2(n_factors, Min2(matrix.n_users, matrix.n_items) - 1)
    IN  /\ self.is_trained
        /\ Len(Val(self.user_factors)) = matrix.n_users
        /\ Len(Val(self.item_factors)) = matrix.n_items
        /\ Len(Val(self.user_bias)) = matrix.n_users
        /\ Len(Val(self.item_bias)) = matrix.n_items
        /\ IF k <= 0 \/ svd_fails
           THEN /\ Columns(Val(self.user_factors), n_factors)
                /\ Columns(Val(self.item_factors), n_factors)
                /\ Val(self.user_bias) = Zeros(matrix.n_users)
                /\ Val(self.item_bias) = Zeros(matrix.n_items)
           ELSE /\ Columns(Val(self.user_factors), k)
                /\ Columns(Val(self.item_factors), k)

\* C25: SVD-mode training on a non-empty list always ends trained and raises
\* nothing.  The decomposition uses k = min(n_factors, min(n_users, n_items)
\* - 1) factors; when it cannot be computed (k <= 0, or the solver fails) the
\* factor tables are random-initialised with one row per user and per item
\* and n_factors columns, and every bias is 0.
SvdAlwaysTrains ==
    [][last'.op = "train" =>
          \A seed \in CoordinatorSeeds, svd_fails \in BOOLEAN :
              /\ last'.interactions # <<>>
              /\ CFTrainCall(last'.interactions, TRUE, seed, svd_fails)
              => ~last'.raised /\ SvdOutcome(cf', last'.interactions, svd_fails)]_vars

\* an SVD-mode train call on a single record (k = 0) returned: trained, with
\* one row of n_factors columns per table and zero biases
SvdFallbackSeen ==
    /\ last.op = "train" /\ Len(last.interactions) = 1
    /\ cf = CFTrain(CFInit, last.interactions, TRUE, 1, FALSE)
    /\ SvdOutcome(cf, last.interactions, FALSE)
    /\ Columns(Val(cf.user_factors), n_factors)
    /\ Val(cf.user_bias) = <<RZero>>

\* an SVD-mode train call on two users and two items (k = 1) returned with
\* factor tables of one column
SvdDecomposedSeen ==
    /\ last.op = "train"
    /\ CreateInteractionMatrix(last.interactions).n_users = 2
    /\ CreateInteractionMatrix(last.interactions).n_items = 2
    /\ cf.is_trained
    /\ Columns(Val(cf.user_factors), 1) /\ Len(Val(cf.user_factors)) = 2

\* interaction_weights of the specification: the multiplier of a record's type
TypeMultiplier(interaction) ==
    IF "interaction_type" \notin DOMAIN interaction THEN Rat(1, 1)
    ELSE IF interaction.interaction_type = "view" THEN Rat(1, 1)
    ELSE IF interaction.interaction_type = "join" THEN Rat(2, 1)
    ELSE IF interaction.interaction_type = "complete" THEN Rat(3, 1)
    ELSE IF interaction.interaction_type = "rate_positive" THEN Rat(4, 1)
    ELSE IF interaction.interaction_type = "bookmark" THEN Rat(5, 2)
    ELSE Rat(1, 1)

\* the weight of a record, 1 for a record without one
RecordWeight(interaction) ==
    IF "weight" \in DOMAIN interaction THEN RInt(interaction.weight) ELSE ROne

\* the entry of the matrix at (row, col): 0 where nothing is stored
Entry(matrix, row, col) ==
    IF <<row, col>> \in DOMAIN matrix.data THEN matrix.data[<<row, col>>] ELSE RZero

\* id_map gives the ids the indices 0..n-1 in ascending order of id, and
\* reverse_map is its inverse
DenseSorted(ids, id_map, reverse_map) ==
    /\ DOMAIN id_map = ids
    /\ {id_map[x] : x \in ids} = 0..(Cardinality(ids) - 1)
    /\ \A x, y \in ids : x < y => id_map[x] < id_map[y]
    /\ DOMAIN reverse_map = 0..(Cardinality(ids) - 1)
    /\ \A x \in ids : reverse_map[id_map[x]] = x

\* C26: the matrix train builds has one row per distinct user and one column
\* per distinct item of the list, indexed densely from 0 in ascending order
\* of id, with reverse maps that are the inverses of the id maps; its value
\* at (u, i) is the sum, over the records of that pair, of the multiplier of
\* the record's type (1 view, 2 join, 3 complete, 4 rate_positive, 2.5
\* bookmark, 1 for any other or a missing type) times the record's weight.
MatrixFromRecords ==
    last.op = "train" =>
        LET q == last.interactions
            matrix == CreateInteractionMatrix(q)
            users == {q[k].user_id : k \in 1..Len(q)}
            items == {q[k].item_id : k \in 1..Len(q)}
            w == [k \in 1..Len(q) |-> RMul(TypeMultiplier(q[k]), RecordWeight(q[k]))]
        IN  /\ matrix.n_users = Cardinality(users)
            /\ matrix.n_items = Cardinality(items)
            /\ cf.user_id_map = matrix.user_id_map
            /\ cf.item_id_map = matrix.item_id_map
            /\ DenseSorted(users, cf.user_id_map, cf.reverse_user_map)
            /\ DenseSorted(items, cf.item_id_map, cf.reverse_item_map)
            /\ \A u \in users, i \in items :
                  Entry(matrix, cf.user_id_map[u], cf.item_id_map[i])
                    = RSum(w, {k \in 1..Len(q) : q[k].user_id = u /\ q[k].item_id = i})
            /\ q # <<>> => cf.global_bias = DataMean(matrix)

\* a train call returned whose list has two records of one (user, item)
\* pair, of different types: the entry is the sum 1 + 2 of their weights
MatrixSummedSeen ==
    /\ last.op = "train"
    /\ last.interactions = <<MatrixRecords[1], MatrixRecords[3]>>
    /\ Entry(CreateInteractionMatrix(last.interactions), 0, 0) = RInt(3)
    /\ cf.global_bias = RInt(3)

\* a train call returned whose list has a bookmark of weight 2 and a record
\* of an unknown type: the entry is 2.5 * 2 + 1
MatrixWeightedSeen ==
    /\ last.op = "train"
    /\ last.interactions = <<MatrixRecords[6], MatrixRecords[7]>>
    /\ Entry(CreateInteractionMatrix(last.interactions), 0, 0) = RInt(6)

----------------------------------------------------------------------------
(* Properties of GNNRecommender.build_graph, checked under SpecEdges *)

\* C27: after build_graph on a non-empty list, edge_index holds, for each
\* interaction in turn, the edge (idx(u), n_users + idx(i)) and its reverse:
\* exactly 2 * len(interactions) entries, with every entry its reverse is an
\* entry too, and every edge joins a user endpoint in [0, n_users) with an
\* item endpoint in [n_users, n_users + n_items), so no edge joins two users
\* or two items.
BipartiteEdges ==
    last.op = "build_graph" /\ last.interactions # <<>> =>
        LET q == last.interactions
            edges == Val(gnn.edge_index)
            n_users == Cardinality({q[k].user_id : k \in 1..Len(q)})
            n_items == Cardinality({q[k].item_id : k \in 1..Len(q)})
            users == 0..(n_users - 1)
            items == n_users..(n_users + n_items - 1)
        IN  /\ ~IsNone(gnn.edge_index)
            /\ Len(edges) = 2 * Len(q)
            /\ \A k \in 1..Len(q) :
                  /\ edges[2 * k - 1] = <<gnn.user_id_map[q[k].user_id],
                                          n_users + gnn.item_id_map[q[k].item_id]>>
                  /\ edges[2 * k] = <<edges[2 * k - 1][2], edges[2 * k - 1][1]>>
            /\ \A j \in 1..Len(edges) :
                  /\ <<edges[j][2], edges[j][1]>> \in Range(edges)
                  /\ \/ edges[j][1] \in users /\ edges[j][2] \in items
                     \/ edges[j][1] \in items /\ edges[j][2] \in users
            /\ Val(gnn.model).num_users = n_users
            /\ Val(gnn.model).num_items = n_items

\* build_graph returned on a list of two users with an item each: four
\* entries, the item endpoints being 2 and 3
BipartiteEdgesSeen ==
    /\ last.op = "build_graph"
    /\ last.interactions = <<MatrixRecords[1], MatrixRecords[6]>>
    /\ ~IsNone(gnn.edge_index)
    /\ Val(gnn.edge_index)[1] = <<0, 2>>
    /\ Val(gnn.edge_index)[Len(Val(gnn.edge_index))] = <<3, 1>>

\* build_graph returned on a list that names one pair twice: four entries,
\* two of them equal
RepeatedEdgeSeen ==
    /\ last.op = "build_graph"
    /\ last.interactions = <<MatrixRecords[1], MatrixRecords[2]>>
    /\ Val(gnn.edge_index) = <<<<0, 1>>, <<1, 0>>, <<0, 1>>, <<1, 0>>>>

----------------------------------------------------------------------------
(* Weighted fusion under a changed weight, checked under SpecFusion *)

\* the weights w with the weight of model m doubled
Doubled(w, m) == [w EXCEPT ![m] = RMul(RInt(2), @)]

\* the weights set_weights installs for the same doubling: divided by their sum
Renormalized(w) ==
    LET total == RAdd(RAdd(w.content, w.collaborative), w.gnn)
    IN  [k \in DOMAIN w |-> RDiv(w[k], total)]

\* _weighted_ensemble on the scores of the last call under the weights w
FusedUnder(w) ==
    WeightedEnsemble([Self EXCEPT !.weights = w], last.scores.content,
                     last.scores.collaborative, last.scores.gnn)

\* the position of id in sorted(final_scores.items(), key=score, reverse=True)
\* when the dict holds its keys in the given order
PositionOf(final_scores, order, id) ==
    LET ranked == Ranked(final_scores, order, Len(order))
    IN  CHOOSE j \in 1..Len(ranked) : ranked[j].id = id

\* model m alone scored a, and scored b lower than a
OnlyScoredHigher(m, a, b) ==
    /\ a \in DOMAIN last.scores[m] /\ b \in DOMAIN last.scores[m]
    /\ \A o \in ModelNames \ {m} : a \notin DOMAIN last.scores[o]
    /\ RLt(last.scores[m][b], last.scores[m][a])

\* C21: weighted fusion is monotone in a model's weight.  Let id a be scored
\* only by model m and id b be scored lower than a by m, all scores and the
\* other weights fixed: if a is ranked at or above b under the weights w, a
\* is ranked at or above b after m's weight is doubled, both with the
\* doubled weight as it is and with the weights divided by their sum.
WeightMonotone ==
    last.op = "_weighted_ensemble" =>
        \A m \in ModelNames, a \in DOMAIN last.result, b \in DOMAIN last.result :
            OnlyScoredHigher(m, a, b) =>
                \A order \in Orders(DOMAIN last.result) :
                    PositionOf(last.result, order, a) < PositionOf(last.result, order, b)
                    => /\ PositionOf(FusedUnder(Doubled(weights, m)), order, a)
                            < PositionOf(FusedUnder(Doubled(weights, m)), order, b)
                       /\ PositionOf(FusedUnder(Renormalized(Doubled(weights, m))), order, a)
                            < PositionOf(FusedUnder(Renormalized(Doubled(weights, m))), order, b)

\* id 1 was scored 1 by the content model alone, id 2 was scored 1/2 by the
\* content model and 1 by the collaborative model, both ready, under the
\* default weights: id 2 fuses to 11/14 below id 1, and to 7/10 once the
\* content weight is doubled
WeightMonotoneSeen ==
    /\ last.op = "_weighted_ensemble"
    /\ weights = DefaultWeights /\ models_ready.collaborative
    /\ OnlyScoredHigher("content", 1, 2)
    /\ last.scores.content[2] = RHalf
    /\ 2 \in DOMAIN last.scores.collaborative /\ last.scores.collaborative[2] = ROne
    /\ 2 \notin DOMAIN last.scores.gnn
    /\ last.result[1] = ROne /\ last.result[2] = Rat(11, 14)
    /\ FusedUnder(Doubled(weights, "content"))[1] = ROne
    /\ FusedUnder(Doubled(weights, "content"))[2] = Rat(7, 10)

----------------------------------------------------------------------------
(* Properties of the recommend calls at capacity, checked under SpecCapacity *)

\* the profile of the candidate with this id in the last recommend call
CandidateOf(id) ==
    last.candidates[CHOOSE i \in 1..Len(last.candidates) :
                       Str(last.candidates[i].id) = id]

\* C22: every score that recommend_mentors, recommend_sessions or
\* recommend_groups returns lies in [0, 1], for each of the three ensemble
\* methods, every readiness of the collaborative and the graph model and
\* every candidate list, candidates with more participants than their
\* maximum included.
ScoresInUnit ==
    last.op = "recommend" =>
        \A j \in 1..Len(last.results) :
            RLe(RZero, last.results[j].score) /\ RLe(last.results[j].score, ROne)

\* recommend_sessions returned a session that has more participants than
\* its maximum, whose content score is below 0 before normalization
OverfullScoredSeen ==
    /\ last.op = "recommend" /\ last.kind = "session"
    /\ \E j \in 1..Len(last.results) :
          LET session == CandidateOf(last.results[j].id)
          IN  /\ session.current > session.capacity
              /\ RLt(SessionScore(last.user_data, session).score, RZero)
              /\ RLe(RZero, last.results[j].score)

\* recommend_mentors returned the content model's own scores under the
\* method 'cascading'
CascadingScoredSeen ==
    /\ last.op = "recommend" /\ last.kind = "mentor"
    /\ ensemble_method = "cascading"
    /\ models_ready.collaborative /\ models_ready.gnn
    /\ Len(last.results) = 2
    /\ last.results[1].score = MentorScore(last.user_data, CandidateOf(last.results[1].id)).score

FullGroupLeftOutSeen ==
    /\ last.op = "recommend" /\ last.kind = "group"
    /\ ~models_ready.collaborative /\ ~models_ready.gnn
    /\ Len(last.candidates) = 2 /\ last.top_k = 2
    /\ Len(last.results) = 1
    /\ GroupAvailable(CandidateOf(last.results[1].id))

\* the ids the graph model returns for the user of the last recommend call:
\* stage 1 of the funnel
GraphStageIds ==
    Range(Ids(GNNRecommendItems(gnn, last.user_id, CandidateIds(last.candidates),
                                Min2(Len(last.candidates), last.top_k * 5))))

\* C23: with the method 'cascading', recommend_sessions and recommend_groups
\* apply the three-stage funnel as recommend_mentors does: when the graph
\* model is ready, every id they return is one the graph model returned for
\* this user, so nothing is returned for a user the graph model does not
\* know and no candidate outside its item index is returned.
FunnelEveryKind ==
    /\ last.op = "recommend" /\ last.kind \in {"session", "group"}
    /\ ensemble_method = "cascading" /\ models_ready.gnn
    => Range(Ids(last.results)) \subseteq GraphStageIds

\* recommend_sessions or recommend_groups, with the method 'cascading' and
\* the graph model ready, returned a candidate for a user the graph model
\* does not know
FunnelSkippedSeen ==
    /\ last.op = "recommend" /\ last.kind \in {"session", "group"}
    /\ ensemble_method = "cascading" /\ models_ready.gnn
    /\ last.user_id \notin DOMAIN gnn.user_id_map
    /\ GraphStageIds = {}
    /\ last.results # <<>>

\* recommend_mentors, with the method 'cascading' and the graph model ready,
\* returned nothing for a user the graph model does not know
FunnelMentorsSeen ==
    /\ last.op = "recommend" /\ last.kind = "mentor"
    /\ ensemble_method = "cascading" /\ models_ready.gnn
    /\ last.user_id \notin DOMAIN gnn.user_id_map
    /\ last.candidates # <<>>
    /\ last.results = <<>>

----------------------------------------------------------------------------
(* The shape of the list a recommend call returns, checked under Spec *)

\* the ids that at least one model scored in the last recommend call
ScoredIds ==
    AllItems(ModelScores(Self, last.kind, last.user_id, last.user_data, last.candidates))

\* C28: with the method 'weighted' or 'context_aware', the list a recommend
\* call returns is in non-increasing order of score, has at most top_k
\* entries, holds no id twice and only ids (as strings) of the candidates it
\* was given; its length is min(top_k, number of distinct ids scored by at
\* least one model).
ResultShape ==
    /\ last.op = "recommend" /\ ~last.raised
    /\ ensemble_method \in {"weighted", "context_aware"}
    => LET results == last.results
       IN  /\ \A j \in 1..(Len(results) - 1) :
                  RLe(results[j + 1].score, results[j].score)
           /\ Len(results) <= last.top_k
           /\ \A i, j \in 1..Len(results) : results[i].id = results[j].id => i = j
           /\ Range(Ids(results)) \subseteq Range(CandidateIds(last.candidates))
           /\ Len(results) = Min2(last.top_k, Cardinality(ScoredIds))

\* a 'context_aware' call with two scored candidates and top_k = 1 returned
\* the one of higher score
ResultCutSeen ==
    /\ last.op = "recommend" /\ ~last.raised
    /\ ensemble_method = "context_aware"
    /\ models_ready.collaborative
    /\ Cardinality(ScoredIds) = 2 /\ last.top_k = 1
    /\ Len(last.results) = 1
    /\ RLt(RZero, last.results[1].score)

\* a 'weighted' call returned two candidates, the second of lower score
ResultOrderedSeen ==
    /\ last.op = "recommend" /\ ~last.raised
    /\ ensemble_method = "weighted"
    /\ Len(last.results) = 2
    /\ RLt(last.results[2].score, last.results[1].score)

----------------------------------------------------------------------------
(* Properties of GraphBuilder.get_bipartite_graph, checked under SpecGraph *)

\* the node types an edge of each edge_type joins: every add_* operation
\* puts a user at the source
SourceType(edge) == "users"
TargetType(edge) ==
    CASE edge.edge_type = "mentored_by" -> "mentors"
      [] edge.edge_type = "attended" -> "sessions"
      [] edge.edge_type = "organizes" -> "sessions"
      [] edge.edge_type = "member_of" -> "groups"
      [] edge.edge_type = "group_peer" -> "users"

\* no id is a node of two types
NodeSetsDisjoint(self) ==
    \A s \in NodeTypes, t \in NodeTypes :
        s # t => self.nodes[s] \cap self.nodes[t] = {}

\* C30: get_bipartite_graph(type_1, type_2), for two different types,
\* returns exactly the edges that join a node of type_1 with a node of
\* type_2, in either direction, and no edge between two nodes of one type;
\* the node sets of the four types are pairwise disjoint after any sequence
\* of add_* operations, so a user-user 'group_peer' edge is never returned
\* for (users, mentors).
BipartiteExact ==
    /\ NodeSetsDisjoint(builder)
    /\ last.op = "get_bipartite_graph" /\ last.node_type_1 # last.node_type_2 =>
          LET Joined(edge) ==
                  {SourceType(edge), TargetType(edge)}
                      = {last.node_type_1, last.node_type_2}
          IN  /\ last.result.nodes_1 = builder.nodes[last.node_type_1]
              /\ last.result.nodes_2 = builder.nodes[last.node_type_2]
              /\ last.result.bipartite_edges = SelectSeq(builder.edges, Joined)

\* get_bipartite_graph('users', 'mentors') returned a 'group_peer' edge: its
\* target 'None', the id of a member document without 'userId', is the
\* mentor id of a request without 'mentorId' too
PeerEdgeReturnedSeen ==
    /\ last.op = "get_bipartite_graph"
    /\ last.node_type_1 = "users" /\ last.node_type_2 = "mentors"
    /\ "None" \in builder.nodes.users \cap builder.nodes.mentors
    /\ \E k \in 1..Len(last.result.bipartite_edges) :
          /\ last.result.bipartite_edges[k].edge_type = "group_peer"
          /\ last.result.bipartite_edges[k].source = "u1"
          /\ last.result.bipartite_edges[k].target = "None"

\* get_bipartite_graph('users', 'mentors') on a builder whose node sets are
\* disjoint returned the one 'mentored_by' edge and left the 'member_of' and
\* 'group_peer' edges out
BipartiteDisjointSeen ==
    /\ last.op = "get_bipartite_graph"
    /\ last.node_type_1 = "users" /\ last.node_type_2 = "mentors"
    /\ NodeSetsDisjoint(builder)
    /\ \E k \in 1..Len(builder.edges) : builder.edges[k].edge_type = "group_peer"
    /\ Len(last.result.bipartite_edges) = 1
    /\ last.result.bipartite_edges[1].edge_type = "mentored_by"

====
